---- MODULE Spec2Model ----
(***************************************************************************)
(* A model of the workbook-analysis core of airport-platform_test and of   *)
(* three of its collaborators:                                             *)
(*   excel_analyzer/dependency.py  DependencyGraph                         *)
(*   excel_analyzer/parser.py      parse_reference, extract_dependencies,  *)
(*                                 detect_structured_ranges, parse         *)
(*   excel_analyzer/financial_rules.py  FormulaRuleRegistry and its rules  *)
(*   excel_analyzer/analyzer.py    WorkbookAnalyzer.analyze                *)
(*   analysis/sensitivity_inputs.py  extract_sensitivity_inputs            *)
(*   reporting/nlg_templates.py    generate_summary                        *)
(*   analyze_model/batch.py        run_batch_scheduler                     *)
(* Each component has its own specification:                               *)
(*   Spec            the dependency graph and its operations               *)
(*   SpecParser      the reference parser applied to bounded formulas      *)
(*   SpecRules       the rule registry applied to bounded formulas         *)
(*   SpecDetect      the scan of detect_structured_ranges over sheets      *)
(*   SpecDetectFair  that scan, sheet read row by row, with fairness       *)
(*   SpecWorkbook    parse and analyze applied to one-sheet workbooks      *)
(*   SpecSensitivity extract_sensitivity_inputs applied to one-row sheets  *)
(*   SpecSummary     generate_summary applied to aggregated metrics        *)
(*   SpecBatch       the loop of run_batch_scheduler, with fairness        *)
(***************************************************************************)
EXTENDS FiniteSets, Integers, Sequences, TLC

VARIABLES
    edges,      \* DependencyGraph.edges: node id -> set of referenced node ids
    ret,        \* the last call on the graph: operation, argument, outcome
    formula,    \* extract_dependencies: the formula, as the tokens Tokenizer yields
    ref,        \* parse_reference: the reference text
    current_sheet,  \* the current_sheet argument of either function
    parsed,     \* the last parser call: function, error raised, value returned
    plugins,    \* FormulaRuleRegistry.plugins
    formula_cell,       \* the cell whose formula is handed to identify_metrics
    metrics,    \* the last identify_metrics call and the list it returned
    values,     \* detect_structured_ranges: list(value_sheet.values)
    merged_cells,       \* sheet.merged_cells.ranges, as range strings
    row,        \* the scan cursor of detect_structured_ranges
    structured_ranges,  \* the tables found so far
    block,      \* the block the last iteration of the scan found, if any
    returned,   \* whether detect_structured_ranges has returned
    workbook,   \* the workbook, or the metrics, a call is handed
    options,    \* the other arguments of that call
    result,     \* the call made on the workbook: function, error raised, value
    batch       \* run_batch_scheduler: its arguments, locals and position

graphVars == <<edges, ret>>
parserVars == <<formula, ref, current_sheet, parsed>>
rulesVars == <<plugins, formula_cell, metrics>>
detectVars == <<values, merged_cells, row, structured_ranges, block, returned>>
callVars == <<workbook, options, result>>
batchVars == <<batch>>
vars == <<graphVars, parserVars, rulesVars, detectVars, callVars, batchVars>>

(***************************************************************************)
(* Bounds of the model.                                                    *)
(***************************************************************************)
MaxDeps == 2        \* length of CellMetadata.dependencies in one add_cell call
MaxSubset == 2      \* length of the nodes collection handed to subgraph
MaxCol == 2         \* references use columns 1..MaxCol, and Z and AA
MaxRow == 2         \* references use rows 1..MaxRow, and TwoDigitRow
TwoDigitRow == 10   \* a row whose number has two digits
MaxTokens == 2      \* tokens of a formula
MaxOperands == 1    \* operands multiplied onto the first term of a formula
MaxPlugins == 2     \* plugins registered with a registry
MaxGridRows == 4    \* rows of a scanned sheet

\* the cell identifiers the graph operations draw from: enough for a cycle of
\* length three, and for a two-cycle or a self-reference beside an outside node
Nodes == {"Sheet1!A1", "Sheet1!B1", "Sheet2!C3"}

(***************************************************************************)
(* Generic helpers.                                                        *)
(***************************************************************************)
Range(s) == {s[i] : i \in 1..Len(s)}

NoDup(s) == \A i, j \in 1..Len(s) : i # j => s[i] # s[j]

\* every subset of S with at most n elements
SubsetsUpTo(S, n) == {T \in SUBSET S : Cardinality(T) <= n}

\* every order in which a Python set or dict holding S can be iterated
Perms(S) == {s \in [1..Cardinality(S) -> S] : NoDup(s)}

(***************************************************************************)
(* dict operations on edges.  The dict is a function from its keys to      *)
(* their reference sets; the insertion order of a dict only decides the    *)
(* order in which it is iterated, and wherever the code iterates a dict or *)
(* a set, every order is an outcome of the model.                          *)
(***************************************************************************)
EmptyDict == <<>>

Keys(E) == DOMAIN E

Get(E, n, default) == IF n \in DOMAIN E THEN E[n] ELSE default

SetItem(E, n, S) == [k \in DOMAIN E \cup {n} |-> IF k = n THEN S ELSE E[k]]

SetDefault(E, n) == IF n \in DOMAIN E THEN E ELSE SetItem(E, n, {})

\* dict.setdefault(n, set()).update(S)
SetDefaultUpdate(E, n, S) == SetItem(E, n, Get(E, n, {}) \cup S)

\* for dependency in ds: setdefault(dependency, set())
SetDefaultAll(E, ds) == [k \in DOMAIN E \cup ds |-> IF k \in DOMAIN E THEN E[k] ELSE {}]

(***************************************************************************)
(* DependencyGraph                                                         *)
(***************************************************************************)
\* CellMetadata as add_cell reads it: the id property and the identifiers
\* held by the dependencies list
Cells == {[id |-> n, dependencies |-> d] : n \in Nodes, d \in SubsetsUpTo(Nodes, MaxDeps)}

add_cell_toggle(E, cell) ==
    LET old == Get(E, cell.id, {})
        new == cell.dependencies
    IN  SetDefaultAll(SetItem(E, cell.id, (old \ new) \cup (new \ old)), new)

add_cell_no_close(E, cell) == SetDefaultUpdate(E, cell.id, cell.dependencies)

add_cell(E, cell) ==
    SetDefaultAll(SetDefaultUpdate(E, cell.id, cell.dependencies), cell.dependencies)

downstream_index(E, node) ==
    [raised |-> node \notin Keys(E), value |-> Get(E, node, {})]

downstream(E, node) == [raised |-> FALSE, value |-> Get(E, node, {})]

upstream_no_self(E, target) ==
    [raised |-> FALSE, value |-> {n \in Keys(E) : n # target /\ target \in E[n]}]

upstream(E, target) ==
    [raised |-> FALSE, value |-> {n \in Keys(E) : target \in E[n]}]

\* in_degree after lines 33-39: every key and every referenced identifier,
\* counted once per referencing key
Referenced(E) == UNION {E[k] : k \in Keys(E)}

in_degree(E) ==
    [n \in Keys(E) \cup Referenced(E) |-> Cardinality({k \in Keys(E) : n \in E[k]})]

InitialQueues_first_only(deg) ==
    {IF q = <<>> THEN q ELSE <<q[1]>> : q \in Perms({n \in DOMAIN deg : deg[n] = 0})}

\* the queue of line 40, in the iteration order of in_degree
InitialQueues(deg) == Perms({n \in DOMAIN deg : deg[n] = 0})

\* the while loop of lines 43-50: one iteration per call, the reference set
\* of the node iterated in any order
RECURSIVE Kahn(_, _, _, _, _)
Kahn(E, deg, queue, idx, ordered) ==
    IF ~(idx < Len(queue))
    THEN {[ordered |-> ordered, in_degree |-> deg]}
    ELSE LET node == queue[idx + 1]
             deps == Get(E, node, {})
             deg2 == [n \in DOMAIN deg |-> IF n \in deps THEN deg[n] - 1 ELSE deg[n]]
             zero == {d \in deps : deg2[d] = 0}
         IN  UNION {Kahn(E, deg2, queue \o p, idx + 1, Append(ordered, node)) :
                        p \in Perms(zero)}

KahnRuns(E) == UNION {Kahn(E, in_degree(E), q, 0, <<>>) : q \in InitialQueues(in_degree(E))}

topological_sort_reversed(E) ==
    {IF Len(k.ordered) # Cardinality(DOMAIN k.in_degree)
     THEN [raised |-> TRUE, value |-> <<>>, edges |-> E]
     ELSE [raised |-> FALSE,
           value |-> [i \in 1..Len(k.ordered) |-> k.ordered[Len(k.ordered) + 1 - i]],
           edges |-> E] : k \in KahnRuns(E)}

topological_sort_partial(E) ==
    {[raised |-> FALSE, value |-> k.ordered, edges |-> E] : k \in KahnRuns(E)}

\* lines 51-53: the outcome of the call, and self.edges as the call leaves it
topological_sort(E) ==
    {IF Len(k.ordered) # Cardinality(DOMAIN k.in_degree)
     THEN [raised |-> TRUE, value |-> <<>>, edges |-> E]
     ELSE [raised |-> FALSE, value |-> k.ordered, edges |-> E] : k \in KahnRuns(E)}

subgraph_unfiltered(E, nodes) ==
    [raised |-> FALSE, value |-> [n \in nodes |-> Get(E, n, {})]]

\* one key per element of nodes, filtered by set(nodes)
subgraph(E, nodes) ==
    [raised |-> FALSE, value |-> [n \in nodes |-> Get(E, n, {}) \cap nodes]]

(***************************************************************************)
(* Actions of the graph specification.                                     *)
(***************************************************************************)
\* ret.after_cycle_error: the call before this one was a topological_sort that
\* raised the cycle error
NoCall == [op |-> "none", arg |-> <<>>, raised |-> FALSE, value |-> <<>>,
           after_cycle_error |-> FALSE]

Called(op, arg, out) ==
    [op |-> op, arg |-> arg, raised |-> out.raised, value |-> out.value,
     after_cycle_error |-> (ret.op = "topological_sort" /\ ret.raised)]

SubgraphArgs == SubsetsUpTo(Nodes, MaxSubset)

AddCell ==
    \E cell \in Cells :
        /\ edges' = add_cell(edges, cell)
        /\ ret' = Called("add_cell", cell,
                          [raised |-> FALSE,
                           value |-> [repeated |-> (ret.op = "add_cell" /\ ret.arg = cell)]])

Downstream ==
    \E node \in Nodes :
        /\ ret' = Called("downstream", node, downstream(edges, node))
        /\ UNCHANGED edges

Upstream ==
    \E target \in Nodes :
        /\ ret' = Called("upstream", target, upstream(edges, target))
        /\ UNCHANGED edges

TopologicalSort ==
    \E out \in topological_sort(edges) :
        /\ ret' = Called("topological_sort", edges, out)
        /\ edges' = out.edges

Subgraph ==
    \E nodes \in SubgraphArgs :
        /\ ret' = Called("subgraph", nodes, subgraph(edges, nodes))
        /\ UNCHANGED edges

GraphInit ==
    /\ edges = EmptyDict
    /\ ret = NoCall

ParserIdle ==
    /\ formula = <<>>
    /\ ref = <<>>
    /\ current_sheet = <<>>
    /\ parsed = [op |-> "none", raised |-> "none", value |-> <<>>]

\* no registry built and no formula inspected
RulesIdle ==
    /\ plugins = <<>>
    /\ formula_cell = [sheet |-> <<>>, coordinate |-> <<>>, formula |-> <<>>, comment |-> <<>>]
    /\ metrics = [op |-> "none", value |-> <<>>]

\* no sheet scanned
DetectIdle ==
    /\ values = <<>>
    /\ merged_cells = {}
    /\ row = 0
    /\ structured_ranges = <<>>
    /\ block = [found |-> FALSE]
    /\ returned = FALSE

\* no workbook handed to parse, analyze, extract_sensitivity_inputs or
\* generate_summary
CallsIdle ==
    /\ workbook = <<>>
    /\ options = <<>>
    /\ result = [op |-> "none", raised |-> "none", value |-> <<>>]

\* run_batch_scheduler not called
BatchIdle == batch = [pc |-> "idle"]

Init == GraphInit /\ ParserIdle /\ RulesIdle /\ DetectIdle /\ CallsIdle /\ BatchIdle

Next ==
    \/ AddCell /\ UNCHANGED <<parserVars, rulesVars, detectVars, callVars, batchVars>>
    \/ Downstream /\ UNCHANGED <<parserVars, rulesVars, detectVars, callVars, batchVars>>
    \/ Upstream /\ UNCHANGED <<parserVars, rulesVars, detectVars, callVars, batchVars>>
    \/ TopologicalSort /\ UNCHANGED <<parserVars, rulesVars, detectVars, callVars, batchVars>>
    \/ Subgraph /\ UNCHANGED <<parserVars, rulesVars, detectVars, callVars, batchVars>>

Spec == Init /\ [][Next]_vars

(***************************************************************************)
(* Properties of the dependency graph.                                     *)
(***************************************************************************)
\* the identifiers reachable from S along references, S included
RECURSIVE Closure(_, _)
Closure(E, S) ==
    LET T == S \cup UNION {Get(E, n, {}) : n \in S}
    IN  IF T = S THEN S ELSE Closure(E, T)

\* n lies on a directed cycle of references (a self-reference included)
OnCycle(E, n) == n \in Closure(E, Get(E, n, {}))

HasCycle(E) == \E n \in Keys(E) : OnCycle(E, n)

Queries == {"downstream", "upstream", "subgraph"}

\* C1: after any sequence of add_cell calls on an initially empty graph, every
\* identifier in some node's reference set is itself a key of the graph
C1_Closed == \A k \in Keys(edges) : edges[k] \subseteq Keys(edges)

\* a referenced identifier that was given no references of its own is a key
\* mapped to the empty set
C1_Witness ==
    /\ ret.op = "add_cell"
    /\ \E n \in ret.arg.dependencies :
          n # ret.arg.id /\ n \in Keys(edges) /\ edges[n] = {}

\* C2: on an acyclic graph topological_sort returns an order in which, for every
\* edge u -> v (u references v), u appears before v
C2_ReferencingFirst ==
    (ret.op = "topological_sort" /\ ~HasCycle(edges)) =>
        /\ ~ret.raised
        /\ \A u \in Keys(edges) : \A v \in edges[u] :
              \E i, j \in 1..Len(ret.value) :
                  i < j /\ ret.value[i] = u /\ ret.value[j] = v
        /\ \A i, j \in 1..Len(ret.value) :
              ret.value[j] \in Get(edges, ret.value[i], {}) => i < j

C2_Witness ==
    /\ ret.op = "topological_sort"
    /\ ~ret.raised
    /\ \E u \in Keys(edges) : \E v \in edges[u] : edges[v] # {}

\* C3: whenever the graph has a directed cycle (mutual references, a longer
\* cycle, a self-reference), topological_sort fails with the cycle error and
\* returns no ordering, not even of the nodes outside the cycle
C3_CycleError ==
    (ret.op = "topological_sort" /\ HasCycle(edges)) =>
        (ret.raised /\ ret.value = <<>>)

C3_Witness ==
    /\ ret.op = "topological_sort"
    /\ ret.raised
    /\ \E n \in Keys(edges) : ~OnCycle(edges, n)
    /\ \E n \in Keys(edges) : OnCycle(edges, n) /\ n \notin edges[n]

\* C4: on an acyclic graph built by add_cell, topological_sort returns every
\* node identifier (added cells and referenced identifiers) exactly once
C4_EveryNodeOnce ==
    (ret.op = "topological_sort" /\ ~HasCycle(edges)) =>
        /\ ~ret.raised
        /\ Range(ret.value) = Keys(edges) \cup Referenced(edges)
        /\ NoDup(ret.value)
        /\ Len(ret.value) = Cardinality(Keys(edges) \cup Referenced(edges))

C4_Witness ==
    /\ ret.op = "topological_sort"
    /\ ~ret.raised
    /\ Len(ret.value) = Cardinality(Nodes)
    /\ Referenced(edges) # {}

\* C5: for every graph, cyclic or not, node is in upstream(target) exactly when
\* target is in downstream(node)
C5_UpstreamDownstream ==
    /\ ret.op = "upstream" =>
          \A node \in Nodes :
              node \in ret.value <=> ret.arg \in downstream(edges, node).value
    /\ ret.op = "downstream" =>
          \A target \in Nodes :
              target \in ret.value <=> ret.arg \in upstream(edges, target).value

C5_Witness ==
    /\ ret.op = "upstream"
    /\ ret.arg \in ret.value
    /\ Cardinality(ret.value) > 1
    /\ Keys(edges) # Nodes

\* C6: subgraph(S) maps each retained node n to exactly downstream(n) \cap S, and
\* no identifier outside S is a key of the subgraph or in a reference set of it
C6_SubgraphRestricts ==
    ret.op = "subgraph" =>
        /\ \A n \in ret.arg :
              n \in Keys(ret.value) /\ ret.value[n] = downstream(edges, n).value \cap ret.arg
        /\ Keys(ret.value) \subseteq ret.arg
        /\ Referenced(ret.value) \subseteq ret.arg

C6_Witness ==
    /\ ret.op = "subgraph"
    /\ \E n \in ret.arg \cap Keys(edges) :
          ret.value[n] # {} /\ ~(edges[n] \subseteq ret.arg)

\* C7: on a graph with a cycle, downstream, upstream and subgraph never raise,
\* also after a topological_sort that failed with the cycle error: the failed
\* call leaves the node and edge sets of the graph unchanged
C7_CycleErrorIsLocal ==
    /\ (ret.op \in Queries /\ HasCycle(edges)) => ~ret.raised
    /\ ret.op = "topological_sort" => edges = ret.arg

C7_Witness ==
    /\ ret.op = "downstream"
    /\ ret.after_cycle_error
    /\ HasCycle(edges)
    /\ ret.arg \notin Keys(edges)

\* C8: add_cell is idempotent per cell: a second add_cell(c) with the same cell
\* leaves the graph exactly as it was after the first
C8_AddCellIdempotent ==
    [][(ret.op = "add_cell" /\ ret'.op = "add_cell" /\ ret'.arg = ret.arg)
          => edges' = edges]_vars

C8_Witness ==
    /\ ret.op = "add_cell"
    /\ ret.value.repeated
    /\ ret.arg.id \in ret.arg.dependencies
    /\ Cardinality(ret.arg.dependencies) > 1

(***************************************************************************)
(* Text.  A Python str is the sequence of its characters.                  *)
(***************************************************************************)
Letters == <<"A", "B", "C", "D", "E", "F", "G", "H", "I", "J", "K", "L", "M",
             "N", "O", "P", "Q", "R", "S", "T", "U", "V", "W", "X", "Y", "Z">>

Digits == <<"0", "1", "2", "3", "4", "5", "6", "7", "8", "9">>

IndexOf(seq, x) == CHOOSE i \in 1..Len(seq) : seq[i] = x

\* ord(ch), for the characters the references of the model are written with
Ord(ch) ==
    CASE ch = " " -> 32
      [] ch = "!" -> 33
      [] ch = "$" -> 36
      [] ch = "'" -> 39
      [] ch \in Range(Digits) -> 47 + IndexOf(Digits, ch)
      [] ch = ":" -> 58
      [] ch \in Range(Letters) -> 64 + IndexOf(Letters, ch)
      [] ch = "[" -> 91
      [] ch = "]" -> 93

\* a < b for two str: by code point at the first difference, a proper prefix first
StrLess(a, b) ==
    LET n == IF Len(a) < Len(b) THEN Len(a) ELSE Len(b)
        diff == {i \in 1..n : a[i] # b[i]}
    IN  IF diff = {}
        THEN Len(a) < Len(b)
        ELSE LET d == CHOOSE i \in diff : \A j \in diff : i <= j
             IN  Ord(a[d]) < Ord(b[d])

\* sorted(set(xs)): the distinct elements, least first
RECURSIVE SortedSet(_)
SortedSet(S) ==
    IF S = {} THEN <<>>
    ELSE LET least == CHOOSE x \in S : \A y \in S \ {x} : StrLess(x, y)
         IN  <<least>> \o SortedSet(S \ {least})

\* str.replace(ch, "")
RECURSIVE RemoveAll(_, _)
RemoveAll(str, ch) ==
    IF str = <<>> THEN <<>>
    ELSE IF Head(str) = ch THEN RemoveAll(Tail(str), ch)
    ELSE <<Head(str)>> \o RemoveAll(Tail(str), ch)

\* str.strip(ch)
RECURSIVE Strip(_, _)
Strip(str, ch) ==
    IF str = <<>> THEN <<>>
    ELSE IF Head(str) = ch THEN Strip(Tail(str), ch)
    ELSE IF str[Len(str)] = ch THEN Strip(SubSeq(str, 1, Len(str) - 1), ch)
    ELSE str

\* the index of the first ch in str
FirstIndex(str, ch) ==
    CHOOSE i \in 1..Len(str) : str[i] = ch /\ \A j \in 1..(i - 1) : str[j] # ch

Around(str, at) ==
    [before |-> SubSeq(str, 1, at - 1), after |-> SubSeq(str, at + 1, Len(str))]

\* str.split(ch, 1): the text before the first ch, and the text after it
SplitOnce(str, ch) == Around(str, FirstIndex(str, ch))

\* str(n) for an int n >= 0
RECURSIVE DecStr(_)
DecStr(n) ==
    IF n < 10 THEN <<Digits[n + 1]>> ELSE DecStr(n \div 10) \o <<Digits[(n % 10) + 1]>>

\* int(digits)
RECURSIVE DecVal(_)
DecVal(digits) ==
    IF digits = <<>> THEN 0
    ELSE 10 * DecVal(SubSeq(digits, 1, Len(digits) - 1))
             + (IndexOf(Digits, digits[Len(digits)]) - 1)

(***************************************************************************)
(* openpyxl.utils as parse_reference uses it.                              *)
(***************************************************************************)
\* get_column_letter: divmod by 26 with the remainder 0 written as Z
RECURSIVE get_column_letter(_)
get_column_letter(col_idx) ==
    IF col_idx <= 0 THEN <<>>
    ELSE LET remainder == IF col_idx % 26 = 0 THEN 26 ELSE col_idx % 26
             quotient == IF col_idx % 26 = 0 THEN (col_idx \div 26) - 1 ELSE col_idx \div 26
         IN  get_column_letter(quotient) \o <<Letters[remainder]>>

\* column_index_from_string: the letters as a base-26 number with digits 1..26
RECURSIVE column_index_from_string(_)
column_index_from_string(str_col) ==
    IF str_col = <<>> THEN 0
    ELSE 26 * column_index_from_string(SubSeq(str_col, 1, Len(str_col) - 1))
             + IndexOf(Letters, str_col[Len(str_col)])

\* the number of leading characters of str that are in chars, at most max
RECURSIVE Lead(_, _, _)
Lead(str, chars, max) ==
    IF max = 0 \/ str = <<>> \/ Head(str) \notin chars THEN 0
    ELSE 1 + Lead(Tail(str), chars, max - 1)

SplitAt(str, n) == [head |-> SubSeq(str, 1, n), rest |-> SubSeq(str, n + 1, Len(str))]

\* the longest head of str made of chars, at most max long, and what follows it
TakeLead(str, chars, max) == SplitAt(str, Lead(str, chars, max))

\* [$]? at the head of str
SkipDollar(str) == IF str # <<>> /\ Head(str) = "$" THEN Tail(str) ELSE str

CoordinateGroups(col, r) == [col |-> col, row |-> r.head, rest |-> r.rest]

CoordinateRow(c) ==
    CoordinateGroups(c.head, TakeLead(SkipDollar(c.rest), Range(Digits), Len(c.rest)))

\* [$]?([A-Za-z]{1,3})?[$]?(\d+)? at the head of str: the groups and the rest;
\* a group that matched nothing (None) is <<>>
CoordinateMatch(str) == CoordinateRow(TakeLead(SkipDollar(str), Range(Letters), 3))

MatchGroups(a, b) ==
    [matched |-> a.rest = <<>> \/ (Head(a.rest) = ":" /\ b.rest = <<>>),
     min_col |-> a.col, min_row |-> a.row, sep |-> a.rest # <<>>,
     max_col |-> b.col, max_row |-> b.row]

SecondCorner(a) ==
    MatchGroups(a, CoordinateMatch(IF a.rest = <<>> THEN <<>> ELSE Tail(a.rest)))

\* ABSOLUTE_RE.match(range_string): ^coordinate(:coordinate)?$
AbsoluteMatch(str) == SecondCorner(CoordinateMatch(str))

\* a boundary that is None is <<>>, a number n is <<n>>
ColumnBoundary(letters) ==
    IF letters = <<>> THEN <<>> ELSE <<column_index_from_string(letters)>>

RowBoundary(digits) == IF digits = <<>> THEN <<>> ELSE <<DecVal(digits)>>

\* with a ":", both corners carry a column and a row, or only columns, or only rows
BothCorners(m) ==
    \/ m.min_col # <<>> /\ m.max_col # <<>> /\ m.min_row # <<>> /\ m.max_row # <<>>
    \/ m.min_col # <<>> /\ m.max_col # <<>> /\ m.min_row = <<>> /\ m.max_row = <<>>
    \/ m.min_row # <<>> /\ m.max_row # <<>> /\ m.min_col = <<>> /\ m.max_col = <<>>

Boundaries(m) ==
    IF ~m.matched
    THEN [raised |-> "ValueError"]
    ELSE IF m.sep /\ ~BothCorners(m)
    THEN [raised |-> "ValueError"]
    ELSE [raised |-> "none",
          min_col |-> ColumnBoundary(m.min_col),
          min_row |-> RowBoundary(m.min_row),
          max_col |-> ColumnBoundary(IF m.max_col = <<>> THEN m.min_col ELSE m.max_col),
          max_row |-> RowBoundary(IF m.max_row = <<>> THEN m.min_row ELSE m.max_row)]

\* range_boundaries: (min_col, min_row, max_col, max_row) of a range string
range_boundaries(range_string) == Boundaries(AbsoluteMatch(range_string))

(***************************************************************************)
(* parse_reference and extract_dependencies                                *)
(***************************************************************************)
CellId(sheet_name, coord) == sheet_name \o <<"!">> \o coord

\* for row in range(min_row, max_row + 1): cells.append(...)
RowLoop(cells, sheet_name, col_letter, min_row, max_row) ==
    cells \o [i \in 1..(max_row - min_row + 1) |->
                 CellId(sheet_name, col_letter \o DecStr(min_row + i - 1))]

\* for col_idx in range(min_col, max_col + 1): the rows of that column
RECURSIVE ColLoop(_, _, _, _, _, _)
ColLoop(cells, sheet_name, col_idx, max_col, min_row, max_row) ==
    IF col_idx > max_col THEN cells
    ELSE ColLoop(RowLoop(cells, sheet_name, get_column_letter(col_idx), min_row, max_row),
                 sheet_name, col_idx + 1, max_col, min_row, max_row)

ExpandRange_exclusive(sheet_name, b) ==
    IF b.raised # "none"
    THEN [raised |-> b.raised, value |-> <<>>]
    ELSE IF b.min_col = <<>> \/ b.max_col = <<>>
    THEN [raised |-> "TypeError", value |-> <<>>]
    ELSE IF b.min_col[1] >= b.max_col[1]
    THEN [raised |-> "none", value |-> <<>>]
    ELSE IF b.min_row = <<>> \/ b.max_row = <<>>
    THEN [raised |-> "TypeError", value |-> <<>>]
    ELSE [raised |-> "none",
          value |-> ColLoop(<<>>, sheet_name, b.min_col[1], b.max_col[1] - 1,
                            b.min_row[1], b.max_row[1] - 1)]

\* lines 40-46, given the outcome of range_boundaries: its ValueError leaves
\* parse_reference, and None + 1 or range(None, ...) raises TypeError
ExpandRange(sheet_name, b) ==
    IF b.raised # "none"
    THEN [raised |-> b.raised, value |-> <<>>]
    ELSE IF b.min_col = <<>> \/ b.max_col = <<>>
    THEN [raised |-> "TypeError", value |-> <<>>]
    ELSE IF b.min_col[1] > b.max_col[1]
    THEN [raised |-> "none", value |-> <<>>]
    ELSE IF b.min_row = <<>> \/ b.max_row = <<>>
    THEN [raised |-> "TypeError", value |-> <<>>]
    ELSE [raised |-> "none",
          value |-> ColLoop(<<>>, sheet_name, b.min_col[1], b.max_col[1],
                            b.min_row[1], b.max_row[1])]

\* lines 36-46, given the sheet name and the coordinate without its $ signs
ParseCoord(sheet_name, coord) ==
    IF ":" \notin Range(coord)
    THEN [raised |-> "none", value |-> <<CellId(sheet_name, coord)>>]
    ELSE ExpandRange(sheet_name, range_boundaries(coord))

QualifiedReference(parts) ==
    ParseCoord(Strip(parts.before, "'"), RemoveAll(parts.after, "$"))

parse_reference_keep_markers(r, sheet_arg) ==
    IF "!" \in Range(r)
    THEN ParseCoord(Strip(SplitOnce(r, "!").before, "'"), SplitOnce(r, "!").after)
    ELSE ParseCoord(sheet_arg, r)

parse_reference(r, sheet_arg) ==
    IF "!" \in Range(r)
    THEN QualifiedReference(SplitOnce(r, "!"))
    ELSE ParseCoord(sheet_arg, RemoveAll(r, "$"))

\* the loop of lines 53-60 over the tokens: the list so far, or the error that
\* is not a ValueError and leaves the function
RECURSIVE DependenciesLoop(_, _, _)
RECURSIVE AfterParse(_, _, _, _)
AfterParse(dependencies, p, tokens, sheet_arg) ==
    IF p.raised = "ValueError"
    THEN DependenciesLoop(dependencies, tokens, sheet_arg)
    ELSE IF p.raised # "none"
    THEN [raised |-> p.raised, value |-> <<>>]
    ELSE DependenciesLoop(dependencies \o p.value, tokens, sheet_arg)

DependenciesLoop(dependencies, tokens, sheet_arg) ==
    IF tokens = <<>> THEN [raised |-> "none", value |-> dependencies]
    ELSE IF Head(tokens).subtype \notin {"RANGE", "REF"}
    THEN DependenciesLoop(dependencies, Tail(tokens), sheet_arg)
    ELSE AfterParse(dependencies, parse_reference(Head(tokens).value, sheet_arg),
                    Tail(tokens), sheet_arg)

\* return sorted(set(dependencies))
SortedResult(loop) ==
    IF loop.raised # "none" THEN loop
    ELSE [raised |-> "none", value |-> SortedSet(Range(loop.value))]

extract_dependencies_unsorted(tokens, sheet_arg) ==
    DependenciesLoop(<<>>, tokens, sheet_arg)

extract_dependencies(tokens, sheet_arg) ==
    SortedResult(DependenciesLoop(<<>>, tokens, sheet_arg))

(***************************************************************************)
(* The references and formulas the parser is applied to.                   *)
(***************************************************************************)
\* the name of column c in the spreadsheet encoding: A..Z, AA..ZZ, AAA..
ColumnName(c) ==
    IF c <= 26 THEN <<Letters[c]>>
    ELSE IF c <= 702
    THEN <<Letters[((c - 27) \div 26) + 1], Letters[((c - 27) % 26) + 1]>>
    ELSE <<Letters[((c - 703) \div 676) + 1], Letters[(((c - 703) \div 26) % 26) + 1],
           Letters[((c - 703) % 26) + 1]>>

CurrentSheets == {<<"S", "1">>, <<"S", "2">>}

\* a sheet qualifier as written in a reference, and the sheet it names
Unqualified == [text |-> <<>>, name |-> <<>>]
PlainQualifier == [text |-> <<"S", "2", "!">>, name |-> <<"S", "2">>]
QuotedQualifier == [text |-> <<"'", "S", " ", "2", "'", "!">>, name |-> <<"S", " ", "2">>]
Qualifiers == {Unqualified, PlainQualifier, QuotedQualifier}

\* where a reference carries absolute markers: nowhere, on every part, or on
\* the column of its first corner and the row of its second ($A1:B$2)
Markers == {"none", "all", "mixed"}

Cols == (1..MaxCol) \cup {Len(Letters), Len(Letters) + 1}
Rows == (1..MaxRow) \cup {TwoDigitRow}

Dollar(on) == IF on THEN <<"$">> ELSE <<>>

CellText(q, c, r, abs) ==
    q.text \o Dollar(abs # "none") \o ColumnName(c) \o Dollar(abs = "all") \o DecStr(r)

RangeShapes == [q : Qualifiers, c1 : Cols, r1 : Rows, c2 : Cols, r2 : Rows, abs : Markers]

RangeText(s) ==
    CellText(s.q, s.c1, s.r1, s.abs) \o <<":">>
        \o Dollar(s.abs = "all") \o ColumnName(s.c2) \o Dollar(s.abs # "none") \o DecStr(s.r2)

\* column-only and row-only ranges, a range with half a corner, a structured
\* table reference and an external-workbook reference
OtherRefs ==
    {<<"A", ":", "B">>, <<"B", ":", "A">>, <<"1", ":", "2">>, <<"A", "1", ":", "B">>,
     <<"T", "[", "A", "]">>, <<"[", "1", "]", "S", "2", "!", "A", "1">>}

RefTexts ==
    {CellText(q, c, r, abs) : q \in Qualifiers, c \in Cols, r \in Rows, abs \in Markers}
        \cup {RangeText(s) : s \in RangeShapes}
        \cup OtherRefs

\* Tokenizer(formula).items: what extract_dependencies reads of each token
Operand(text) == [type |-> "OPERAND", subtype |-> "RANGE", value |-> text]

TokenPool ==
    {Operand(CellText(Unqualified, 1, MaxRow, "none")),
     Operand(CellText(Unqualified, 1, MaxRow, "all")),
     Operand(CellText(Unqualified, 1, TwoDigitRow, "none")),
     Operand(CellText(Unqualified, 2, 1, "none")),
     Operand(CellText(Unqualified, Len(Letters) + 1, 1, "none")),
     Operand(CellText(PlainQualifier, 1, MaxRow, "none")),
     Operand(CellText(QuotedQualifier, 1, 1, "mixed")),
     Operand(RangeText([q |-> Unqualified, c1 |-> 1, r1 |-> 1, c2 |-> 1, r2 |-> MaxRow,
                        abs |-> "none"])),
     Operand(RangeText([q |-> Unqualified, c1 |-> 1, r1 |-> MaxRow, c2 |-> 1,
                        r2 |-> TwoDigitRow, abs |-> "all"])),
     Operand(RangeText([q |-> Unqualified, c1 |-> 1, r1 |-> 1, c2 |-> 2, r2 |-> MaxRow,
                        abs |-> "none"])),
     Operand(<<"A", "1", ":", "B">>),
     Operand(<<"A", ":", "B">>),
     Operand(<<"T", "[", "A", "]">>),
     Operand(<<"[", "1", "]", "S", "2", "!", "A", "1">>),
     [type |-> "OPERAND", subtype |-> "NUMBER", value |-> <<"1", ".", "0", "5">>],
     [type |-> "FUNC", subtype |-> "OPEN", value |-> <<"S", "U", "M", "(">>]}

Formulas == UNION {[1..n -> TokenPool] : n \in 0..MaxTokens}

(***************************************************************************)
(* Actions of the parser specification.                                    *)
(***************************************************************************)
Outcome(op, out) == [op |-> op, raised |-> out.raised, value |-> out.value]

\* the parser's functions are pure: an argument tuple is drawn, then the
\* function is applied to it once
ParserArgs ==
    /\ current_sheet \in CurrentSheets
    /\ \/ ref \in RefTexts /\ formula = <<>>
       \/ formula \in Formulas /\ ref = <<>>
    /\ parsed = [op |-> "none", raised |-> "none", value |-> <<>>]

InitParser ==
    GraphInit /\ ParserArgs /\ RulesIdle /\ DetectIdle /\ CallsIdle /\ BatchIdle

ParseReference ==
    /\ parsed.op = "none"
    /\ ref # <<>>
    /\ parsed' = Outcome("parse_reference", parse_reference(ref, current_sheet))
    /\ UNCHANGED <<formula, ref, current_sheet>>

ExtractDependencies ==
    /\ parsed.op = "none"
    /\ ref = <<>>
    /\ parsed' = Outcome("extract_dependencies", extract_dependencies(formula, current_sheet))
    /\ UNCHANGED <<formula, ref, current_sheet>>

NextParser ==
    \/ ParseReference /\ UNCHANGED <<graphVars, rulesVars, detectVars, callVars, batchVars>>
    \/ ExtractDependencies /\ UNCHANGED <<graphVars, rulesVars, detectVars, callVars, batchVars>>

SpecParser == InitParser /\ [][NextParser]_vars

(***************************************************************************)
(* Properties of the parser.                                               *)
(***************************************************************************)
\* C9: for every formula and sheet, the list extract_dependencies returns is in
\* ascending lexicographic order and holds no identifier twice, also when the
\* formula references a cell several times or through overlapping ranges
C9_SortedUnique ==
    (parsed.op = "extract_dependencies" /\ parsed.raised = "none") =>
        /\ \A i, j \in 1..Len(parsed.value) :
              i < j => StrLess(parsed.value[i], parsed.value[j])
        /\ NoDup(parsed.value)
        /\ Range(parsed.value) = Range(DependenciesLoop(<<>>, formula, current_sheet).value)

\* two overlapping ranges were expanded, and row 10 is listed before row 2
C9_Witness ==
    /\ parsed.op = "extract_dependencies"
    /\ parsed.raised = "none"
    /\ Len(formula) = 2
    /\ \A k \in 1..2 : ":" \in Range(formula[k].value)
    /\ Len(DependenciesLoop(<<>>, formula, current_sheet).value) > Len(parsed.value)
    /\ \E i \in 1..(Len(parsed.value) - 1) :
          /\ parsed.value[i] = CellId(current_sheet, <<"A">> \o DecStr(TwoDigitRow))
          /\ parsed.value[i + 1] = CellId(current_sheet, <<"A">> \o DecStr(MaxRow))

RangeCells(sheet_name, s) ==
    {CellId(sheet_name, ColumnName(c) \o DecStr(r)) :
        c \in s.c1..s.c2, r \in s.r1..s.r2}

IsPrefix(p, text) == Len(p) <= Len(text) /\ SubSeq(text, 1, Len(p)) = p

\* the range shapes that are written as text, found by their first corner
ShapesOf(text) ==
    UNION {IF IsPrefix(CellText(q, c1, r1, abs) \o <<":">>, text)
           THEN {s \in [q : {q}, c1 : {c1}, r1 : {r1}, c2 : Cols, r2 : Rows, abs : {abs}] :
                    RangeText(s) = text}
           ELSE {} : q \in Qualifiers, c1 \in Cols, r1 \in Rows, abs \in Markers}

\* C10: for a range reference c1r1:c2r2, parse_reference returns exactly one
\* identifier sheet!<col><row> for every column c1..c2 and every row r1..r2 and
\* nothing else: (c2-c1+1)*(r2-r1+1) distinct identifiers
C10_RangeExpansion ==
    parsed.op = "parse_reference" =>
        \A s \in ShapesOf(ref) :
            LET sheet_name == IF s.q = Unqualified THEN current_sheet ELSE s.q.name
            IN  /\ parsed.raised = "none"
                /\ Range(parsed.value) = RangeCells(sheet_name, s)
                /\ Cardinality(Range(parsed.value)) = Len(parsed.value)
                /\ (s.c1 <= s.c2 /\ s.r1 <= s.r2) =>
                      Len(parsed.value) = (s.c2 - s.c1 + 1) * (s.r2 - s.r1 + 1)

\* a quoted-sheet range with absolute markers, from a one-letter column to a
\* two-letter one and from a one-digit row to a two-digit one, was expanded
C10_Witness ==
    /\ parsed.op = "parse_reference"
    /\ Len(parsed.value) > Len(Letters)
    /\ \E s \in ShapesOf(ref) :
          /\ s.c1 < s.c2 /\ s.c2 > Len(Letters)
          /\ s.r1 < s.r2 /\ s.r2 = TwoDigitRow
          /\ s.abs = "mixed"
          /\ s.q = QuotedQualifier

\* references that name no cell and no cell range of this workbook: a
\* structured-table reference and an external-workbook reference
UninterpretableRefs == {<<"T", "[", "A", "]">>, <<"[", "1", "]", "S", "2", "!", "A", "1">>}

\* a range with half a second corner
MalformedRefs == {<<"A", "1", ":", "B">>}

\* column-only and row-only ranges
UnboundedRefs == {<<"A", ":", "B">>, <<"B", ":", "A">>, <<"1", ":", "2">>}

\* C11: parse_reference raises the recoverable error (ValueError), instead of
\* returning identifiers, for an external-workbook reference and for a
\* structured-table reference
C11_UninterpretableRaises ==
    (parsed.op = "parse_reference" /\ ref \in UninterpretableRefs) =>
        parsed.raised = "ValueError"

RangeTokens(f) == {i \in 1..Len(f) : f[i].subtype \in {"RANGE", "REF"}}

\* the identifiers of the references of f that name cells of this workbook
ParseableIds(f, sheet_arg) ==
    UNION {Range(parse_reference(f[i].value, sheet_arg).value) :
              i \in {j \in RangeTokens(f) :
                        f[j].value \notin UninterpretableRefs \cup MalformedRefs}}

\* C12: when a formula holds an unparseable reference (structured-table,
\* external-workbook or malformed range) next to parseable ones,
\* extract_dependencies does not raise and returns the identifiers of the
\* parseable references and none derived from the unparseable one
C12_UnparseableDropped ==
    (/\ parsed.op = "extract_dependencies"
     /\ \E i \in RangeTokens(formula) :
           formula[i].value \in UninterpretableRefs \cup MalformedRefs
     /\ \E i \in RangeTokens(formula) :
           formula[i].value \notin UninterpretableRefs \cup MalformedRefs
     /\ \A i \in RangeTokens(formula) : formula[i].value \notin UnboundedRefs)
        => /\ parsed.raised = "none"
           /\ Range(parsed.value) = ParseableIds(formula, current_sheet)

\* C13: parse_reference expands an unbounded range reference (column-only or
\* row-only) to a finite list of identifiers, without error
C13_UnboundedExpanded ==
    (parsed.op = "parse_reference" /\ ref \in UnboundedRefs) =>
        parsed.raised = "none"

(***************************************************************************)
(* financial_rules.py: the rule registry and its two rules.                *)
(***************************************************************************)
LowerLetters == <<"a", "b", "c", "d", "e", "f", "g", "h", "i", "j", "k", "l", "m",
                  "n", "o", "p", "q", "r", "s", "t", "u", "v", "w", "x", "y", "z">>

\* str.upper(), for the characters the formulas of the model are written with
upper(str) ==
    [i \in 1..Len(str) |->
        IF str[i] \in Range(LowerLetters)
        THEN Letters[IndexOf(LowerLetters, str[i])]
        ELSE str[i]]

\* sub in text, for two str
Contains(text, sub) ==
    \E i \in 0..(Len(text) - Len(sub)) : SubSeq(text, i + 1, i + Len(sub)) = sub

\* FinancialFunctionPlugin.function_mapping, in the order of its items()
function_mapping ==
    <<
      [function |-> <<"I", "R", "R">>, description |-> "Internal Rate of Return"],
      [function |-> <<"X", "I", "R", "R">>, description |-> "Extended Internal Rate of Return"],
      [function |-> <<"N", "P", "V">>, description |-> "Net Present Value"],
      [function |-> <<"X", "N", "P", "V">>, description |-> "Extended Net Present Value"],
      [function |-> <<"M", "I", "R", "R">>, description |-> "Modified Internal Rate of Return"],
      [function |-> <<"R", "A", "T", "E">>, description |-> "Interest Rate"],
      [function |-> <<"P", "V">>, description |-> "Present Value"],
      [function |-> <<"F", "V">>, description |-> "Future Value"],
      [function |-> <<"P", "M", "T">>, description |-> "Payment Amount"],
      [function |-> <<"I", "P", "M", "T">>, description |-> "Interest Payment"],
      [function |-> <<"P", "P", "M", "T">>, description |-> "Principal Payment"],
      [function |-> <<"N", "P", "E", "R">>, description |-> "Number of Periods"],
      [function |-> <<"D", "S", "C", "R">>, description |-> "Debt Service Coverage Ratio"]
    >>

\* KeywordPlugin.keywords, in the order of its items()
keywords ==
    <<[keyword |-> <<"D", "S", "C", "R">>, description |-> "Debt Service Coverage Ratio"],
      [keyword |-> <<"E", "B", "I", "T", "D", "A">>,
       description |-> "Earnings Before Interest, Taxes, Depreciation, and Amortization"]>>

\* the text a formula is tokenized from: the values of its tokens after "="
RECURSIVE Joined(_)
Joined(items) ==
    IF items = <<>> THEN <<>> ELSE Head(items).value \o Joined(Tail(items))

FormulaText(items) == <<"=">> \o Joined(items)

IsNamed(token) == token.type = "OPERAND" \/ token.type = "FUNCTION"

UpperValues(items) == [i \in 1..Len(items) |-> upper(items[i].value)]

\* line 29: [token.value.upper() for token in tokenizer.items if token.type == ...]
TokenTexts(items) == UpperValues(SelectSeq(items, IsNamed))

FunctionMetrics(sheet, coordinate, text, hits) ==
    [i \in 1..Len(hits) |->
        [sheet |-> sheet, coordinate |-> coordinate, formula |-> text,
         metric |-> hits[i].function,
         details |-> [description |-> hits[i].description]]]

\* FinancialFunctionPlugin.identify: one metric per mapped name among the tokens
FinancialFunctionPlugin_identify(sheet, coordinate, text, tokens) ==
    FunctionMetrics(sheet, coordinate, text,
                    SelectSeq(function_mapping, LAMBDA e : e.function \in Range(tokens)))

KeywordMetrics(sheet, coordinate, text, hits) ==
    [i \in 1..Len(hits) |->
        [sheet |-> sheet, coordinate |-> coordinate, formula |-> text,
         metric |-> hits[i].keyword,
         details |-> [description |-> hits[i].description, source |-> "keyword"]]]

KeywordHits(uppercase_formula) ==
    SelectSeq(keywords, LAMBDA e : Contains(uppercase_formula, e.keyword))

KeywordPlugin_identify_tokens(sheet, coordinate, text, tokens) ==
    KeywordMetrics(sheet, coordinate, text,
                   SelectSeq(keywords, LAMBDA e : e.keyword \in Range(tokens)))

\* KeywordPlugin.identify: one metric per keyword within formula.upper()
KeywordPlugin_identify(sheet, coordinate, text, tokens) ==
    KeywordMetrics(sheet, coordinate, text, KeywordHits(upper(text)))

Plugins == {"FinancialFunctionPlugin", "KeywordPlugin"}

\* plugin.identify(sheet, coordinate, formula, tokens)
identify(plugin, sheet, coordinate, text, tokens) ==
    IF plugin = "FinancialFunctionPlugin"
    THEN FinancialFunctionPlugin_identify(sheet, coordinate, text, tokens)
    ELSE KeywordPlugin_identify(sheet, coordinate, text, tokens)

RECURSIVE PluginsLoop_one_per_label(_, _, _, _, _, _)
PluginsLoop_one_per_label(found, rest, sheet, coordinate, text, tokens) ==
    IF rest = <<>> THEN found
    ELSE PluginsLoop_one_per_label(
             found \o SelectSeq(identify(Head(rest), sheet, coordinate, text, tokens),
                                LAMBDA m : \A k \in 1..Len(found) : found[k].metric # m.metric),
             Tail(rest), sheet, coordinate, text, tokens)

\* for plugin in self.plugins: metrics.extend(plugin.identify(...))
RECURSIVE PluginsLoop(_, _, _, _, _, _)
PluginsLoop(found, rest, sheet, coordinate, text, tokens) ==
    IF rest = <<>> THEN found
    ELSE PluginsLoop(found \o identify(Head(rest), sheet, coordinate, text, tokens),
                     Tail(rest), sheet, coordinate, text, tokens)

\* FormulaRuleRegistry.identify_metrics, given the tokens of the formula
identify_metrics(registered, sheet, coordinate, items) ==
    PluginsLoop(<<>>, registered, sheet, coordinate, FormulaText(items), TokenTexts(items))

\* FormulaRuleRegistry.register
register(registered, plugin) == Append(registered, plugin)

default_registry == register(register(<<>>, "FinancialFunctionPlugin"), "KeywordPlugin")

(***************************************************************************)
(* The formulas the registry is applied to, and its actions.               *)
(***************************************************************************)
\* Tokenizer(formula).items: a function call NAME(arg) is the three tokens
\* "NAME(" of type FUNC, the operand, and ")" of type FUNC
FuncOpen(name) == [type |-> "FUNC", subtype |-> "OPEN", value |-> name \o <<"(">>]

FuncClose == [type |-> "FUNC", subtype |-> "CLOSE", value |-> <<")">>]

Infix == [type |-> "OPERATOR-INFIX", subtype |-> "", value |-> <<"*">>]

CallTerm(name) == <<FuncOpen(name), Operand(<<"B", "1", ":", "B", "1", "0">>), FuncClose>>

MappedNames == {function_mapping[i].function : i \in 1..Len(function_mapping)}

CalledNames == MappedNames \cup {<<"S", "U", "M">>}

\* a cell, two named ranges, a name around a keyword, a number, a text literal
OperandPool ==
    {Operand(<<"B", "2">>),
     Operand(<<"D", "S", "C", "R">>),
     Operand(<<"E", "b", "i", "t", "d", "a">>),
     Operand(<<"d", "s", "c", "r", "_", "m", "i", "n">>),
     [type |-> "OPERAND", subtype |-> "NUMBER", value |-> <<"1", ".", "0", "5">>],
     [type |-> "OPERAND", subtype |-> "TEXT", value |-> <<"\"", "d", "s", "c", "r", "\"">>]}

FirstTerms == {CallTerm(name) : name \in CalledNames} \cup {<<o>> : o \in OperandPool}

\* up to n operands, each multiplied onto what precedes it
RECURSIVE Factors(_)
Factors(n) ==
    IF n = 0 THEN {<<>>}
    ELSE Factors(n - 1) \cup {t \o <<Infix, o>> : t \in Factors(n - 1), o \in OperandPool}

RuleFormulas == {f \o t : f \in FirstTerms, t \in Factors(MaxOperands)}

Comments == {<<>>, <<"D", "S", "C", "R">>}

FormulaCells ==
    [sheet : {<<"S", "1">>}, coordinate : {<<"C", "1">>}, formula : RuleFormulas, comment : Comments]

InitRules ==
    /\ GraphInit /\ ParserIdle /\ DetectIdle /\ CallsIdle /\ BatchIdle
    /\ plugins = <<>>
    /\ formula_cell \in FormulaCells
    /\ metrics = [op |-> "none", value |-> <<>>]

Register(plugin) ==
    /\ metrics.op = "none"
    /\ Len(plugins) < MaxPlugins
    /\ plugins' = register(plugins, plugin)
    /\ UNCHANGED <<formula_cell, metrics>>

\* analyzer.py line 41: the sheet, the coordinate and the formula of the cell
IdentifyMetrics ==
    /\ metrics.op = "none"
    /\ metrics' = [op |-> "identify_metrics",
                   value |-> identify_metrics(plugins, formula_cell.sheet,
                                              formula_cell.coordinate, formula_cell.formula)]
    /\ UNCHANGED <<plugins, formula_cell>>

NextRules ==
    \/ \E plugin \in Plugins :
          Register(plugin)
              /\ UNCHANGED <<graphVars, parserVars, detectVars, callVars, batchVars>>
    \/ IdentifyMetrics /\ UNCHANGED <<graphVars, parserVars, detectVars, callVars, batchVars>>

SpecRules == InitRules /\ [][NextRules]_vars

(***************************************************************************)
(* Properties of the rule registry.                                        *)
(***************************************************************************)
\* the functions a formula calls, upper-cased
CalledFunctions(items) ==
    {upper(SubSeq(items[i].value, 1, Len(items[i].value) - 1)) :
        i \in {j \in 1..Len(items) : items[j].type = "FUNC" /\ items[j].subtype = "OPEN"}}

\* C14: with the default registry, a formula that calls a mapped finance
\* function yields a metric labelled with that function name and described by
\* the mapped text, for each of the 13 mapped names
C14_FunctionMetric ==
    (metrics.op = "identify_metrics" /\ plugins = default_registry) =>
        \A i \in 1..Len(function_mapping) :
            function_mapping[i].function \in CalledFunctions(formula_cell.formula) =>
                \E k \in 1..Len(metrics.value) :
                    /\ metrics.value[k].metric = function_mapping[i].function
                    /\ metrics.value[k].details.description = function_mapping[i].description

RECURSIVE Flatten(_)
Flatten(lists) == IF lists = <<>> THEN <<>> ELSE Head(lists) \o Flatten(Tail(lists))

RuleOutputs ==
    [i \in 1..Len(plugins) |->
        identify(plugins[i], formula_cell.sheet, formula_cell.coordinate,
                 FormulaText(formula_cell.formula), TokenTexts(formula_cell.formula))]

Labelled(label) == {k \in 1..Len(metrics.value) : metrics.value[k].metric = label}

IsKeywordMetric(m) == "source" \in DOMAIN m.details /\ m.details.source = "keyword"

\* C15: identify_metrics returns the outputs of the registered rules, joined
\* in registration order with nothing removed; with the default registry a
\* formula that both rules match as DSCR yields two DSCR metrics, the
\* function-name one first and the keyword-tagged one second
C15_Concatenation ==
    metrics.op = "identify_metrics" =>
        /\ metrics.value = Flatten(RuleOutputs)
        /\ (/\ plugins = default_registry
            /\ \E m \in Range(RuleOutputs[1]) : m.metric = <<"D", "S", "C", "R">>
            /\ \E m \in Range(RuleOutputs[2]) : m.metric = <<"D", "S", "C", "R">>)
              => \E a, b \in Labelled(<<"D", "S", "C", "R">>) :
                    /\ Labelled(<<"D", "S", "C", "R">>) = {a, b}
                    /\ a < b
                    /\ ~IsKeywordMetric(metrics.value[a])
                    /\ IsKeywordMetric(metrics.value[b])

C15_Witness ==
    /\ metrics.op = "identify_metrics"
    /\ plugins = default_registry
    /\ Cardinality(Labelled(<<"D", "S", "C", "R">>)) = 2
    /\ Len(metrics.value) = 2
    /\ ~IsKeywordMetric(metrics.value[1])
    /\ IsKeywordMetric(metrics.value[2])

\* keyword occurs in text when letter case is ignored
OccursIgnoringCase(keyword, text) ==
    \E i \in 0..(Len(text) - Len(keyword)) :
        \A j \in 1..Len(keyword) :
            \/ text[i + j] = keyword[j]
            \/ /\ text[i + j] \in Range(LowerLetters)
               /\ Letters[IndexOf(LowerLetters, text[i + j])] = keyword[j]

KeywordRegistered == Cardinality({i \in 1..Len(plugins) : plugins[i] = "KeywordPlugin"}) = 1

\* C16: the keyword rule emits a metric for keyword K, tagged with source
\* "keyword", exactly when K occurs in the raw formula text with letter case
\* ignored, whatever the comment of the cell says
C16_KeywordRule ==
    (metrics.op = "identify_metrics" /\ KeywordRegistered) =>
        \A i \in 1..Len(keywords) :
            Cardinality({k \in Labelled(keywords[i].keyword) :
                            IsKeywordMetric(metrics.value[k])})
                = IF OccursIgnoringCase(keywords[i].keyword,
                                        FormulaText(formula_cell.formula))
                  THEN 1 ELSE 0

\* =B2*1.05 in a cell whose comment names DSCR: no keyword metric
C16_Witness ==
    /\ metrics.op = "identify_metrics"
    /\ plugins = default_registry
    /\ FormulaText(formula_cell.formula) = <<"=", "B", "2", "*", "1", ".", "0", "5">>
    /\ Contains(formula_cell.comment, <<"D", "S", "C", "R">>)
    /\ metrics.value = <<>>

(***************************************************************************)
(* parser.py: detect_structured_ranges.  A cell value is one of None, "",  *)
(* a non-empty str, a Number and a date; rows and columns are counted from *)
(* 0 as in the code, and values[idx + 1] is the code's values[idx].        *)
(***************************************************************************)
NoneValue == "None"
EmptyString == ""
CellValues == {NoneValue, EmptyString, "str", "number", "date"}

\* cell in (None, "")
IsEmpty(value) == value \in {NoneValue, EmptyString}

Max(S) == CHOOSE x \in S : \A y \in S : y <= x
Min(S) == CHOOSE x \in S : \A y \in S : x <= y

num_rows(vals) == Len(vals)

num_cols(vals) == IF vals = <<>> THEN 0 ELSE Max({Len(vals[i]) : i \in 1..Len(vals)})

\* row_values(idx): the row padded with None to num_cols, [] outside the sheet
row_values(vals, idx) ==
    IF idx < 0 \/ idx >= num_rows(vals) THEN <<>>
    ELSE [i \in 1..num_cols(vals) |->
             IF i <= Len(vals[idx + 1]) THEN vals[idx + 1][i] ELSE NoneValue]

non_empty_cells(cells) == SelectSeq(cells, LAMBDA value : ~IsEmpty(value))

AllStr(cells) == \A i \in 1..Len(cells) : cells[i] = "str"

\* line 111: at least two non-empty cells, all of them str
IsHeader(cells) == Len(cells) >= 2 /\ AllStr(cells)

\* lines 113-117: a non-empty cell of the row is a Number or a date
HasNumeric(cells) ==
    \E i \in 1..Len(cells) : ~IsEmpty(cells[i]) /\ cells[i] \in {"number", "date"}

\* line 118: the index of the first non-empty cell
FirstNonEmpty(cells) == Min({i \in 1..Len(cells) : ~IsEmpty(cells[i])}) - 1

\* lines 119-121: end_col, trimmed backward over empty cells
RECURSIVE TrimEnd(_, _, _)
TrimEnd(cells, start_col, end_col) ==
    IF end_col > start_col /\ IsEmpty(cells[end_col + 1])
    THEN TrimEnd(cells, start_col, end_col - 1)
    ELSE end_col

\* line 126: every cell of the row within the column bounds is empty
EmptyWithin(cells, start_col, end_col) ==
    \A col \in start_col..end_col : IsEmpty(cells[col + 1])

\* lines 124-129: the loop over end_row, from end_row and last_data_row
RECURSIVE RowsLoop(_, _, _, _, _)
RowsLoop(vals, start_col, end_col, end_row, last_data_row) ==
    IF end_row < num_rows(vals)
       /\ ~EmptyWithin(row_values(vals, end_row), start_col, end_col)
    THEN RowsLoop(vals, start_col, end_col, end_row + 1, end_row)
    ELSE [end_row |-> end_row, last_data_row |-> last_data_row]

\* line 130: the range string of the block
BlockRef(start_col, header, end_col, last_data_row) ==
    get_column_letter(start_col + 1) \o DecStr(header + 1) \o <<":">>
        \o get_column_letter(end_col + 1) \o DecStr(last_data_row + 1)

\* line 90, given the boundaries of the range and of one merged range
Overlaps(b, m) ==
    ~(\/ m.max_col[1] < b.min_col[1] \/ m.min_col[1] > b.max_col[1]
      \/ m.max_row[1] < b.min_row[1] \/ m.min_row[1] > b.max_row[1])

Contained(b, m) ==
    /\ m.min_col[1] >= b.min_col[1] /\ m.max_col[1] <= b.max_col[1]
    /\ m.min_row[1] >= b.min_row[1] /\ m.max_row[1] <= b.max_row[1]

MergedWithin(merged, b) == \E m \in merged : Contained(b, range_boundaries(m))

MergedOverlap(merged, b) == \E m \in merged : Overlaps(b, range_boundaries(m))

range_has_merged_cells_contained(merged, range_string) ==
    MergedWithin(merged, range_boundaries(range_string))

\* range_has_merged_cells, given sheet.merged_cells.ranges as strings
range_has_merged_cells(merged, range_string) ==
    MergedOverlap(merged, range_boundaries(range_string))

\* sheet.iter_rows(min_col, max_col, min_row, max_row, values_only=True): a
\* cell outside the sheet's dimensions holds None
IterRows(vals, b) ==
    [i \in 1..(b.max_row[1] - b.min_row[1] + 1) |->
        [j \in 1..(b.max_col[1] - b.min_col[1] + 1) |->
            IF b.min_row[1] + i - 1 <= num_rows(vals) /\ b.min_col[1] + j - 1 <= num_cols(vals)
            THEN row_values(vals, b.min_row[1] + i - 2)[b.min_col[1] + j - 1]
            ELSE NoneValue]]

\* dataframe_from_range: the header and the rows of the DataFrame
dataframe_from_range(vals, range_string) == IterRows(vals, range_boundaries(range_string))

TableMetadata(title, range_string, df) ==
    [sheet |-> title, name |-> NoneValue, ref |-> range_string, dataframe |-> df,
     has_merged_cells |-> FALSE]

Located_stay(merged, header, start_col, end_col, rows, range_string) ==
    [found |-> TRUE, cursor |-> header, header |-> header,
     start_col |-> start_col, end_col |-> end_col,
     last_data_row |-> rows.last_data_row, end_row |-> header,
     ref |-> range_string, kept |-> ~range_has_merged_cells(merged, range_string)]

Located_after_next_row(merged, header, start_col, end_col, rows, range_string) ==
    [found |-> TRUE, cursor |-> header, header |-> header,
     start_col |-> start_col, end_col |-> end_col,
     last_data_row |-> rows.last_data_row, end_row |-> header + 2,
     ref |-> range_string, kept |-> ~range_has_merged_cells(merged, range_string)]

\* lines 130-142, given the rows of the block: the block and whether it is kept
Located(merged, header, start_col, end_col, rows, range_string) ==
    [found |-> TRUE, cursor |-> header, header |-> header,
     start_col |-> start_col, end_col |-> end_col,
     last_data_row |-> rows.last_data_row, end_row |-> rows.end_row,
     ref |-> range_string, kept |-> ~range_has_merged_cells(merged, range_string)]

WithRows(merged, header, start_col, end_col, rows) ==
    Located(merged, header, start_col, end_col, rows,
            BlockRef(start_col, header, end_col, rows.last_data_row))

\* lines 122-129
WithColumns(vals, merged, header, start_col, end_col) ==
    WithRows(merged, header, start_col, end_col,
             RowsLoop(vals, start_col, end_col, header + 1, header + 1))

\* lines 118-121
WithStart(vals, merged, header, current_row, start_col) ==
    WithColumns(vals, merged, header, start_col,
                TrimEnd(current_row, start_col, Len(current_row) - 1))

\* lines 109-143: one iteration of the scan with the cursor on header
Iteration(vals, merged, header) ==
    IF /\ IsHeader(non_empty_cells(row_values(vals, header)))
       /\ HasNumeric(row_values(vals, header + 1))
    THEN WithStart(vals, merged, header, row_values(vals, header),
                   FirstNonEmpty(row_values(vals, header)))
    ELSE [found |-> FALSE, cursor |-> header]

(***************************************************************************)
(* The sheets detect_structured_ranges scans, and its actions.             *)
(***************************************************************************)
\* rows of three columns: an empty row, text headers over A-B, B-C and A-C
\* (with "" between), numbers in A-B, a number in C only, a date beside a
\* text, and a single text
RowPool ==
    {<<NoneValue, NoneValue, NoneValue>>,
     <<"str", "str", NoneValue>>,
     <<NoneValue, "str", "str">>,
     <<"str", EmptyString, "str">>,
     <<"number", "number", NoneValue>>,
     <<NoneValue, NoneValue, "number">>,
     <<"date", "str", NoneValue>>,
     <<"str", NoneValue, NoneValue>>}

Grids == UNION {[1..n -> RowPool] : n \in 0..MaxGridRows}

\* str(merged_range) of the merged ranges a sheet may hold
MergedPool == {<<"B", "2", ":", "C", "2">>, <<"C", "3", ":", "C", "4">>}

SheetTitle == <<"S", "1">>

InitDetect ==
    /\ GraphInit /\ ParserIdle /\ RulesIdle /\ CallsIdle /\ BatchIdle
    /\ values \in Grids
    /\ merged_cells \in SUBSET MergedPool
    /\ row = 0
    /\ structured_ranges = <<>>
    /\ block = [found |-> FALSE]
    /\ returned = FALSE

\* lines 131-141: the table is appended unless a merged range overlaps it
Tables(found, b) ==
    IF b.found /\ b.kept
    THEN Append(found, TableMetadata(SheetTitle, b.ref, dataframe_from_range(values, b.ref)))
    ELSE found

\* one iteration of the while loop of line 108
ScanRow ==
    /\ ~returned
    /\ 0 <= row /\ row < num_rows(values)
    /\ \E b \in {Iteration(values, merged_cells, row)} :
          /\ block' = b
          /\ structured_ranges' = Tables(structured_ranges, b)
          /\ row' = IF b.found THEN b.end_row ELSE row + 1
    /\ UNCHANGED <<values, merged_cells, returned>>

\* line 145: return structured_ranges
ReturnTables ==
    /\ ~returned
    /\ row >= num_rows(values)
    /\ returned' = TRUE
    /\ UNCHANGED <<values, merged_cells, row, structured_ranges, block>>

NextDetect ==
    \/ ScanRow /\ UNCHANGED <<graphVars, parserVars, rulesVars, callVars, batchVars>>
    \/ ReturnTables /\ UNCHANGED <<graphVars, parserVars, rulesVars, callVars, batchVars>>

SpecDetect == InitDetect /\ [][NextDetect]_vars

\* the call from its entry: list(value_sheet.values) reads the sheet row by row
\* (line 97), then row = 0 (line 107); row = -1 stands for the cursor not yet
\* set
InitCall ==
    /\ GraphInit /\ ParserIdle /\ RulesIdle /\ CallsIdle /\ BatchIdle
    /\ values = <<>>
    /\ merged_cells = {}
    /\ row = -1
    /\ structured_ranges = <<>>
    /\ block = [found |-> FALSE]
    /\ returned = FALSE

ReadRow ==
    /\ row = -1
    /\ Len(values) < MaxGridRows
    /\ \E cells \in RowPool : values' = Append(values, cells)
    /\ UNCHANGED <<merged_cells, row, structured_ranges, block, returned>>

StartScan ==
    /\ row = -1
    /\ merged_cells' \in SUBSET MergedPool
    /\ row' = 0
    /\ UNCHANGED <<values, structured_ranges, block, returned>>

NextCall ==
    \/ ReadRow /\ UNCHANGED <<graphVars, parserVars, rulesVars, callVars, batchVars>>
    \/ StartScan /\ UNCHANGED <<graphVars, parserVars, rulesVars, callVars, batchVars>>
    \/ ScanRow /\ UNCHANGED <<graphVars, parserVars, rulesVars, callVars, batchVars>>
    \/ ReturnTables /\ UNCHANGED <<graphVars, parserVars, rulesVars, callVars, batchVars>>

\* line 108: the loop condition, which is when ScanRow is enabled
Scanning == ~returned /\ 0 <= row /\ row < num_rows(values)

\* weak fairness of ScanRow, with ENABLED written as the loop condition
ScanRowFair ==
    \/ []<>(~Scanning)
    \/ []<><<ScanRow /\ UNCHANGED <<graphVars, parserVars, rulesVars, callVars, batchVars>>>>_vars

\* the call runs to its return: it is sequential code that is never suspended,
\* so each of its steps is taken when it is the one enabled
SpecDetectFair ==
    /\ InitCall /\ [][NextCall]_vars
    /\ WF_vars(ReadRow /\ UNCHANGED <<graphVars, parserVars, rulesVars, callVars, batchVars>>)
    /\ WF_vars(StartScan /\ UNCHANGED <<graphVars, parserVars, rulesVars, callVars, batchVars>>)
    /\ WF_vars(ReturnTables /\ UNCHANGED <<graphVars, parserVars, rulesVars, callVars, batchVars>>)
    /\ ScanRowFair

(***************************************************************************)
(* Properties of detect_structured_ranges.  Rows and columns are counted   *)
(* from 1 here, as in a range string.                                      *)
(***************************************************************************)
Examined == "cursor" \in DOMAIN block

\* the columns of row r that hold a value
Filled(r) == {c \in 1..Len(values[r]) : values[r][c] \notin {NoneValue, EmptyString}}

\* row r has at least two values, all of them text
TextHeader(r) == Cardinality(Filled(r)) >= 2 /\ \A c \in Filled(r) : values[r][c] = "str"

\* the row below r holds a number or a date
NumericBelow(r) ==
    r < Len(values) /\ \E c \in Filled(r + 1) : values[r + 1][c] \in {"number", "date"}

\* the first row below r with no value in columns c1..c2, or the row after the sheet
FirstEmptyBelow(r, c1, c2) ==
    Min({q \in (r + 1)..Len(values) : Filled(q) \cap (c1..c2) = {}} \cup {Len(values) + 1})

\* the block the header in row r heads
HeadedBlock(r) ==
    [c1 |-> Min(Filled(r)), r1 |-> r, c2 |-> Max(Filled(r)),
     r2 |-> FirstEmptyBelow(r, Min(Filled(r)), Max(Filled(r))) - 1]

BoxText(box) ==
    ColumnName(box.c1) \o DecStr(box.r1) \o <<":">> \o ColumnName(box.c2) \o DecStr(box.r2)

Boxes == [c1 : 1..3, r1 : 1..(MaxGridRows + 1), c2 : 1..3, r2 : 1..(MaxGridRows + 1)]

\* the box a range string names
BoxOf(text) == CHOOSE box \in Boxes : BoxText(box) = text

\* two boxes share a cell
Intersects(a, b) ==
    \E c \in a.c1..a.c2, r \in a.r1..a.r2 : c \in b.c1..b.c2 /\ r \in b.r1..b.r2

TablesFor(text) == {k \in 1..Len(structured_ranges) : structured_ranges[k].ref = text}

\* C17: when the cursor is on a row with at least two values, all text, the row
\* below holds a number or a date and no merged range intersects the block,
\* exactly one table is emitted for it: from the header's first to its last
\* value, and from the header row to the row before the first row that is
\* empty within those columns
C17_OneTablePerHeader ==
    (/\ Examined
     /\ TextHeader(block.cursor + 1)
     /\ NumericBelow(block.cursor + 1)
     /\ \A m \in merged_cells : ~Intersects(HeadedBlock(block.cursor + 1), BoxOf(m)))
        => /\ structured_ranges # <<>>
           /\ structured_ranges[Len(structured_ranges)].ref
                 = BoxText(HeadedBlock(block.cursor + 1))
           /\ Cardinality(TablesFor(BoxText(HeadedBlock(block.cursor + 1)))) = 1

\* C18: the final row of every block found holds a value within the block's
\* columns, whether the block became a table or not
C18_FinalRowNotEmpty ==
    /\ block.found =>
          Filled(block.last_data_row + 1)
              \cap ((block.start_col + 1)..(block.end_col + 1)) # {}
    /\ \A k \in 1..Len(structured_ranges) :
          Filled(BoxOf(structured_ranges[k].ref).r2)
              \cap (BoxOf(structured_ranges[k].ref).c1..BoxOf(structured_ranges[k].ref).c2)
                 # {}

\* C19: after a block is found, kept or discarded, the cursor is on a row
\* strictly after the block's final row
C19_CursorPastBlock == block.found => row > block.last_data_row

\* C20: no table has a range that shares a cell with a merged range of the
\* sheet, and every table has has_merged_cells false
C20_NoMergedOverlap ==
    \A k \in 1..Len(structured_ranges) :
        /\ structured_ranges[k].has_merged_cells = FALSE
        /\ \A m \in merged_cells :
              ~Intersects(BoxOf(structured_ranges[k].ref), BoxOf(m))

\* the scan has returned after discarding a block for a merged range that
\* lies only partly inside it
C20_Witness ==
    /\ returned
    /\ block.found /\ ~block.kept
    /\ structured_ranges = <<>>
    /\ \E m \in merged_cells :
          /\ Intersects(BoxOf(block.ref), BoxOf(m))
          /\ BoxOf(m).c2 > BoxOf(block.ref).c2

\* C28: the row scan terminates on every finite grid: each iteration moves
\* the cursor to a strictly greater row index, whether or not a block was
\* found on that row, and the call returns
C28_ScanTerminates ==
    /\ [][(row >= 0 /\ returned' = returned) => row' > row]_vars
    /\ <>returned

\* the scan has returned after an iteration that found a table and a later
\* one that found none
C28_Witness ==
    /\ returned
    /\ structured_ranges # <<>>
    /\ Examined /\ ~block.found
    /\ row = Len(values)

\* C29: the tables of one call are listed in increasing row order and have
\* pairwise disjoint row intervals
C29_DisjointRows ==
    \A i, j \in 1..Len(structured_ranges) :
        i < j => BoxOf(structured_ranges[i].ref).r2 < BoxOf(structured_ranges[j].ref).r1

\* two tables were returned
C29_Witness ==
    /\ returned
    /\ Len(structured_ranges) = 2
    /\ BoxOf(structured_ranges[1].ref).r2 + 1 = BoxOf(structured_ranges[2].ref).r1

(***************************************************************************)
(* parser.py: collect_named_ranges and WorkbookParser.parse;               *)
(* dependency.py: from_workbook; analyzer.py: WorkbookAnalyzer.analyze.    *)
(* The workbook has one sheet, SheetTitle: values is its evaluated view,   *)
(* merged_cells its merged ranges, workbook.formulas maps a position       *)
(* <<row, column>> to the formula of the cell there, workbook.tables are   *)
(* the declared tables and workbook.defined_names the defined names.       *)
(***************************************************************************)
\* lines 69-70: one target per destination of the defined name
Destinations(destinations) ==
    [i \in 1..Len(destinations) |->
        CellId(destinations[i][1], RemoveAll(destinations[i][2], "$"))]

NamedRangeMetadata(defined_name) ==
    [name |-> defined_name.name,
     targets |-> IF defined_name.type = "RANGE"
                 THEN Destinations(defined_name.destinations) ELSE <<>>]

collect_named_ranges(defined_names) ==
    [i \in 1..Len(defined_names) |-> NamedRangeMetadata(defined_names[i])]

\* the cells of sheet.iter_rows(), row by row
Positions(vals) ==
    [k \in 1..(num_rows(vals) * num_cols(vals)) |->
        <<((k - 1) \div num_cols(vals)) + 1, ((k - 1) % num_cols(vals)) + 1>>]

\* lines 162-165: the formula of the cell, <<f>> for the formula f and <<>>
\* for None
FormulaAt(formulas, pos) == IF pos \in DOMAIN formulas THEN <<formulas[pos]>> ELSE <<>>

\* lines 169-177, given the formula and what extract_dependencies made of it
CellMetadata(coordinate, value, cell_formula, deps) ==
    [sheet |-> SheetTitle, coordinate |-> coordinate, value |-> value,
     formula |-> cell_formula, dependencies |-> deps.value,
     is_input |-> (cell_formula = <<>>), id |-> CellId(SheetTitle, coordinate),
     raised |-> deps.raised]

\* lines 162-178 for one cell: no cell when it has neither value nor formula
CellAt(vals, pos, cell_formula) ==
    IF row_values(vals, pos[1] - 1)[pos[2]] = NoneValue /\ cell_formula = <<>>
    THEN <<>>
    ELSE <<CellMetadata(get_column_letter(pos[2]) \o DecStr(pos[1]),
                        row_values(vals, pos[1] - 1)[pos[2]], cell_formula,
                        IF cell_formula = <<>>
                        THEN [raised |-> "none", value |-> <<>>]
                        ELSE extract_dependencies(cell_formula[1], SheetTitle))>>

\* lines 160-178: sheet_meta.cells, in the order the cells were entered
RECURSIVE CellsLoop(_, _, _)
CellsLoop(vals, formulas, todo) ==
    IF todo = <<>> THEN <<>>
    ELSE CellAt(vals, Head(todo), FormulaAt(formulas, Head(todo)))
             \o CellsLoop(vals, formulas, Tail(todo))

\* lines 180-190: the declared tables, flagged when they overlap merged cells
DeclaredTables(declared) ==
    [i \in 1..Len(declared) |->
        [sheet |-> SheetTitle, name |-> declared[i].name, ref |-> declared[i].ref,
         dataframe |-> dataframe_from_range(values, declared[i].ref),
         has_merged_cells |-> range_has_merged_cells(merged_cells, declared[i].ref)]]

\* detect_structured_ranges as one call: the scan from row with the tables so far
RECURSIVE ScanFrom(_, _)
ScanOn(found, b) == ScanFrom(IF b.found THEN b.end_row ELSE b.cursor + 1, Tables(found, b))

ScanFrom(cursor, found) ==
    IF cursor >= num_rows(values) THEN found
    ELSE ScanOn(found, Iteration(values, merged_cells, cursor))

detect_structured_ranges == ScanFrom(0, <<>>)

MergeTables_all(declared, heuristic_tables) == declared \o heuristic_tables

\* lines 191-195: the heuristic tables whose ref no declared table has
MergeTables(declared, heuristic_tables) ==
    declared \o SelectSeq(heuristic_tables,
                          LAMBDA t : \A i \in 1..Len(declared) : declared[i].ref # t.ref)

SheetMetadata(cells, tables) ==
    [name |-> SheetTitle, cells |-> cells, tables |-> tables, merged_cells |-> merged_cells]

\* parse, given the cells of the sheet: the error extract_dependencies let
\* through (the only one it does is TypeError), or the WorkbookMetadata
ParseWith(wb, cells) ==
    IF \E i \in 1..Len(cells) : cells[i].raised # "none"
    THEN [raised |-> "TypeError", value |-> <<>>]
    ELSE [raised |-> "none",
          value |-> [sheets |-> <<SheetMetadata(cells,
                                                MergeTables(DeclaredTables(wb.tables),
                                                            detect_structured_ranges))>>,
                     named_ranges |-> collect_named_ranges(wb.defined_names)]]

\* WorkbookParser.parse
parse(wb) == ParseWith(wb, CellsLoop(values, wb.formulas, Positions(values)))

RECURSIVE AddCells_formula_cells(_, _)
AddCells_formula_cells(E, cells) ==
    IF cells = <<>> THEN E
    ELSE AddCells_formula_cells(
             IF Head(cells).is_input THEN E
             ELSE add_cell(E, [id |-> Head(cells).id,
                               dependencies |-> Range(Head(cells).dependencies)]),
             Tail(cells))

\* lines 59-60: graph.add_cell(cell) for the cells of one sheet
RECURSIVE AddCells(_, _)
AddCells(E, cells) ==
    IF cells = <<>> THEN E
    ELSE AddCells(add_cell(E, [id |-> Head(cells).id,
                               dependencies |-> Range(Head(cells).dependencies)]),
                  Tail(cells))

RECURSIVE from_workbook_sheets(_, _)
from_workbook_sheets(E, sheets) ==
    IF sheets = <<>> THEN E
    ELSE from_workbook_sheets(AddCells(E, Head(sheets).cells), Tail(sheets))

from_workbook(meta) == from_workbook_sheets(EmptyDict, meta.sheets)

\* WorkbookAnalyzer._collect_metrics
RECURSIVE _collect_metrics(_, _, _)
_collect_metrics(rules, sheet, cells) ==
    IF cells = <<>> THEN <<>>
    ELSE (IF Head(cells).formula = <<>> THEN <<>>
          ELSE identify_metrics(rules, sheet.name, Head(cells).coordinate,
                                Head(cells).formula[1]))
             \o _collect_metrics(rules, sheet, Tail(cells))

\* lines 32-34
RECURSIVE SheetsMetrics(_, _)
SheetsMetrics(rules, sheets) ==
    IF sheets = <<>> THEN <<>>
    ELSE _collect_metrics(rules, Head(sheets), Head(sheets).cells)
             \o SheetsMetrics(rules, Tail(sheets))

AnalysisResult(meta) ==
    [workbook |-> meta, dependency_graph |-> from_workbook(meta),
     financial_metrics |-> SheetsMetrics(default_registry, meta.sheets)]

\* WorkbookAnalyzer().analyze, given what parse returned
analyze(parsed_workbook) ==
    IF parsed_workbook.raised # "none" THEN parsed_workbook
    ELSE [raised |-> "none", value |-> AnalysisResult(parsed_workbook.value)]

(***************************************************************************)
(* The workbooks parse and analyze are applied to, and their actions.      *)
(***************************************************************************)
\* a sheet without a table, one with a table in A1:B2, one with tables in
\* A1:B2 and A3:B4, and one with a table in A1:B3
SheetGrids ==
    {<<<<"number", "str", NoneValue>>>>,
     <<<<"str", "str", NoneValue>>, <<"number", "number", NoneValue>>>>,
     <<<<"str", "str", NoneValue>>, <<NoneValue, NoneValue, "number">>,
       <<"str", "str", NoneValue>>, <<"date", "str", NoneValue>>>>,
     <<<<"str", "str", NoneValue>>, <<"number", "number", NoneValue>>,
       <<"number", "str", NoneValue>>>>}

\* sheet.tables: a table where the scan finds one, one over the merged range
\* B2:C2 and one below
DeclaredPool ==
    {<<>>,
     <<[name |-> "T1", ref |-> <<"A", "1", ":", "B", "2">>]>>,
     <<[name |-> "T2", ref |-> <<"B", "2", ":", "C", "3">>]>>,
     <<[name |-> "T2", ref |-> <<"B", "2", ":", "C", "3">>],
       [name |-> "T1", ref |-> <<"A", "1", ":", "B", "2">>]>>,
     <<[name |-> "T3", ref |-> <<"A", "3", ":", "B", "4">>]>>}

\* the formulas of the sheet: none; =B2*DSCR in C1; =FV(B1:B10) in A1 and
\* =B2 in C1; =A:B in C1
FormulaPool ==
    {<<>>,
     <<1, 3>> :> <<Operand(<<"B", "2">>), Infix, Operand(<<"D", "S", "C", "R">>)>>,
     (<<1, 1>> :> CallTerm(<<"F", "V">>)) @@ (<<1, 3>> :> <<Operand(<<"B", "2">>)>>),
     <<1, 3>> :> <<Operand(<<"A", ":", "B">>)>>}

\* workbook.defined_names.definedName: a cell, a constant, a range of cells
DefinedNamePool ==
    {<<>>,
     <<[name |-> "Rate", type |-> "RANGE",
        destinations |-> <<<<SheetTitle, <<"$", "B", "$", "2">>>>>>],
       [name |-> "Tax", type |-> "NUMBER", destinations |-> <<>>]>>,
     <<[name |-> "Block", type |-> "RANGE",
        destinations |-> <<<<SheetTitle, <<"$", "A", "$", "1", ":", "$", "B", "$", "2">>>>,
                           <<SheetTitle, <<"C", "1">>>>>>]>>}

Workbooks == [tables : DeclaredPool, formulas : FormulaPool, defined_names : DefinedNamePool]

InitWorkbook ==
    /\ GraphInit /\ ParserIdle /\ RulesIdle /\ BatchIdle
    /\ values \in SheetGrids
    /\ merged_cells \in SUBSET MergedPool
    /\ row = 0
    /\ structured_ranges = <<>>
    /\ block = [found |-> FALSE]
    /\ returned = FALSE
    /\ workbook \in Workbooks
    /\ options = <<>>
    /\ result = [op |-> "none", raised |-> "none", value |-> <<>>]

\* WorkbookParser(path).parse()
Parse ==
    /\ result.op = "none"
    /\ result' = Outcome("parse", parse(workbook))
    /\ UNCHANGED <<workbook, options>>

\* WorkbookAnalyzer().analyze(path)
Analyze ==
    /\ result.op = "none"
    /\ result' = Outcome("analyze", analyze(parse(workbook)))
    /\ UNCHANGED <<workbook, options>>

NextWorkbook ==
    \/ Parse /\ UNCHANGED <<graphVars, parserVars, rulesVars, detectVars, batchVars>>
    \/ Analyze /\ UNCHANGED <<graphVars, parserVars, rulesVars, detectVars, batchVars>>

SpecWorkbook == InitWorkbook /\ [][NextWorkbook]_vars

(***************************************************************************)
(* analysis/sensitivity_inputs.py: extract_sensitivity_inputs.             *)
(* An optional value is <<>> for None and <<x>> for x.  A cell is          *)
(* [value, comment, fill]: value is [kind, text] with the text of a str,   *)
(* comment is the optional text of its Comment, fill is the optional rgb   *)
(* its PatternFill was made with.                                          *)
(***************************************************************************)
\* str.lstrip(ch)
RECURSIVE LStrip(_, _)
LStrip(str, ch) ==
    IF str # <<>> /\ Head(str) = ch THEN LStrip(Tail(str), ch) ELSE str

\* Color(rgb).rgb, and str(color) when rgb is empty: the stub upper-cases it
Color(rgb) == upper(rgb)

\* PatternFill(fgColor=rgb).fgColor
fgColor(fill) == IF fill = <<>> THEN <<>> ELSE <<Color(fill[1])>>

DropOpaque(value) ==
    IF Len(value) = 8 /\ IsPrefix(<<"F", "F">>, value) THEN SubSeq(value, 3, 8) ELSE value

NoneIfEmpty(value) == IF value = <<>> THEN <<>> ELSE <<value>>

\* _normalize_color, for None, a str or a Color
_normalize_color(color) ==
    IF color = <<>> THEN <<>>
    ELSE NoneIfEmpty(DropOpaque(upper(LStrip(Strip(color[1], " "), "#"))))

\* lines 105-110
KeywordsOf(prefix, comment_keywords) ==
    IF comment_keywords = <<>> THEN <<prefix>> ELSE comment_keywords

normalized_highlights(highlight_colors) ==
    [i \in 1..Len(highlight_colors) |-> _normalize_color(highlight_colors[i])]

HasPrefix(cell, prefix) == cell.value.kind = "str" /\ IsPrefix(prefix, cell.value.text)

_matching_reasons_any_fill(cell, prefix, kws, highlight_colors) ==
    (IF HasPrefix(cell, prefix) THEN <<"prefix">> ELSE <<>>)
    \o (IF cell.comment # <<>>
           /\ \E i \in 1..Len(kws) : Contains(cell.comment[1], kws[i])
        THEN <<"comment">> ELSE <<>>)
    \o (IF highlight_colors # <<>> /\ cell.fill # <<>> THEN <<"fill_color">> ELSE <<>>)

\* _matching_reasons
_matching_reasons(cell, prefix, kws, highlight_colors) ==
    (IF HasPrefix(cell, prefix) THEN <<"prefix">> ELSE <<>>)
    \o (IF cell.comment # <<>>
           /\ \E i \in 1..Len(kws) : Contains(cell.comment[1], kws[i])
        THEN <<"comment">> ELSE <<>>)
    \o (IF highlight_colors # <<>>
           /\ _normalize_color(fgColor(cell.fill)) \in Range(highlight_colors)
        THEN <<"fill_color">> ELSE <<>>)

\* _clean_parameter
BeforeColon(candidate) ==
    IF ":" \in Range(candidate) /\ Strip(SplitOnce(candidate, ":").before, " ") # <<>>
    THEN <<Strip(SplitOnce(candidate, ":").before, " ")>>
    ELSE <<candidate>>

_clean_parameter(text) ==
    IF Strip(text, " ") = <<>> THEN <<>> ELSE BeforeColon(Strip(text, " "))

\* text.splitlines(), for a text without a line break
splitlines(text) == IF text = <<>> THEN <<>> ELSE <<text>>

\* lines 185-189: the first line of the comment that starts with the prefix
FirstTagged(lines, prefix) ==
    IF \E i \in 1..Len(lines) : IsPrefix(prefix, lines[i])
    THEN _clean_parameter(
             SubSeq(SelectSeq(lines, LAMBDA line : IsPrefix(prefix, line))[1],
                    Len(prefix) + 1,
                    Len(SelectSeq(lines, LAMBDA line : IsPrefix(prefix, line))[1])))
    ELSE <<>>

_derive_parameter_name(cell, prefix) ==
    IF HasPrefix(cell, prefix)
    THEN _clean_parameter(SubSeq(cell.value.text, Len(prefix) + 1, Len(cell.value.text)))
    ELSE IF cell.comment # <<>>
    THEN FirstTagged(splitlines(cell.comment[1]), prefix)
    ELSE <<>>

\* sorted(reasons)
SortedReasons(reasons) ==
    SelectSeq(<<"comment", "fill_color", "prefix">>, LAMBDA r : r \in Range(reasons))

\* lines 124-135
SensitivityCell(title, coordinate, cell, prefix, reasons) ==
    [sheet |-> title, coordinate |-> coordinate, value |-> cell.value,
     parameter |-> _derive_parameter_name(cell, prefix),
     comment |-> cell.comment,
     fill_color |-> _normalize_color(fgColor(cell.fill)),
     matched_by |-> SortedReasons(reasons)]

\* lines 114-135, for the cell in column j of the row
RecordsOf(title, j, cell, prefix, reasons) ==
    IF reasons = <<>> THEN <<>>
    ELSE <<SensitivityCell(title, get_column_letter(j) \o <<"1">>, cell, prefix, reasons)>>

\* lines 112-136: the cells of the row from column j on
RECURSIVE CellLoop(_, _, _, _, _)
CellLoop(cells, j, prefix, kws, highlights) ==
    IF j > Len(cells) THEN <<>>
    ELSE RecordsOf(SheetTitle, j, cells[j], prefix,
                   _matching_reasons(cells[j], prefix, kws, highlights))
             \o CellLoop(cells, j + 1, prefix, kws, highlights)

\* extract_sensitivity_inputs, for a workbook of one sheet with one row
extract_sensitivity_inputs(cells, opts) ==
    IF opts.output_format = "records"
    THEN [raised |-> "none",
          value |-> CellLoop(cells, 1, opts.prefix,
                             KeywordsOf(opts.prefix, opts.comment_keywords),
                             normalized_highlights(opts.highlight_colors))]
    ELSE [raised |-> "ValueError", value |-> <<>>]

(***************************************************************************)
(* The sheets extract_sensitivity_inputs is applied to, and its action.    *)
(***************************************************************************)
DefaultPrefix == <<"S", "_">>

CellValuePool ==
    {[kind |-> "str", text |-> <<"S", "_", "a">>], [kind |-> "str", text |-> <<"b">>],
     [kind |-> "int", text |-> <<>>], [kind |-> "None", text |-> <<>>]}

CommentPool ==
    {<<>>, <<<<"S", "_", "d", ":", " ", "x">>>>, <<<<"k", "e", "y">>>>, <<<<"n", "o">>>>}

FillPool ==
    {<<>>, <<<<"f", "f", "f", "f", "0", "0">>>>,
     <<<<"F", "F", "F", "F", "F", "F", "0", "0">>>>,
     <<<<"0", "0", "F", "F", "0", "0">>>>}

SensitivityCells == [value : CellValuePool, comment : CommentPool, fill : FillPool]

\* every sheet of one cell, and the sheets whose second cell is an empty one
SensitivitySheets ==
    {<<c>> : c \in SensitivityCells}
    \cup {<<c, [value |-> [kind |-> "None", text |-> <<>>], comment |-> <<>>, fill |-> <<>>]>> :
             c \in {d \in SensitivityCells : d.comment = <<>> /\ d.value.kind # "int"}}

\* comment_keywords: None or [] are <<>>
KeywordPool == {<<>>, <<<<"k", "e", "y">>>>, <<<<"k", "e", "y">>, <<"n">>>>}

\* highlight_colors: None or [] are <<>>; a colour is a str or None
HighlightPool ==
    {<<>>,
     <<<<<<"F", "F", "F", "F", "0", "0">>>>>>,
     <<<<<<"#", "f", "f", "f", "f", "0", "0">>>>, <<<<"0", "0", "F", "F", "0", "0">>>>>>,
     <<<<<<>>>>>>,
     <<<<>>>>}

SensitivityOptions ==
    [prefix : {DefaultPrefix}, comment_keywords : KeywordPool,
     highlight_colors : HighlightPool, output_format : {"records", "csv"}]

InitSensitivity ==
    /\ GraphInit /\ ParserIdle /\ RulesIdle /\ DetectIdle /\ BatchIdle
    /\ workbook \in SensitivitySheets
    /\ options \in SensitivityOptions
    /\ result = [op |-> "none", raised |-> "none", value |-> <<>>]

\* extract_sensitivity_inputs(workbook, prefix=, comment_keywords=, ...)
ExtractSensitivityInputs ==
    /\ result.op = "none"
    /\ result' = Outcome("extract_sensitivity_inputs",
                         extract_sensitivity_inputs(workbook, options))
    /\ UNCHANGED <<workbook, options>>

NextSensitivity ==
    ExtractSensitivityInputs
        /\ UNCHANGED <<graphVars, parserVars, rulesVars, detectVars, batchVars>>

SpecSensitivity == InitSensitivity /\ [][NextSensitivity]_vars

(***************************************************************************)
(* reporting/template_engine.py and reporting/nlg_templates.py:            *)
(* generate_summary.  A number is an int of hundredths (525 is 5.25), an   *)
(* optional value is <<>> for None and <<x>> for x, a sentence is the      *)
(* sequence of its words and a word a sequence of pieces of text; the      *)
(* Korean words of the templates are written by an ASCII gloss.  A value   *)
(* of aggregated is [kind, change_pct, previous, current,                  *)
(* change_pct_point]: kind "absent" is no such key, "None" is None,        *)
(* "number" a float other than 0 and "dict" a dict, whose .get(key) are   *)
(* the four optional numbers.                                              *)
(***************************************************************************)
Abs(v) == IF v < 0 THEN -v ELSE v

\* Decimal(str(value)).quantize(Decimal("0.1"), rounding=ROUND_HALF_UP), in tenths
HalfUpTenths(v) == (Abs(v) + 5) \div 10

\* _format_decimal(value, 1, signed): format(rounded, "+.1f") or format(rounded, ".1f")
_format_decimal(v, signed) ==
    (IF v < 0 THEN <<"-">> ELSE IF signed THEN <<"+">> ELSE <<>>)
        \o DecStr(HalfUpTenths(v) \div 10) \o <<".">> \o DecStr(HalfUpTenths(v) % 10)

_signed_percentage(value, unit) ==
    IF value = <<>> THEN <<"N/A">> ELSE _format_decimal(value[1], TRUE) \o <<unit>>

_percentage(value, unit) ==
    IF value = <<>> THEN <<"N/A">> ELSE _format_decimal(value[1], FALSE) \o <<unit>>

\* _direction_phrase with the three phrases of the templates
_direction_phrase(value) ==
    IF value = <<>> THEN <<<<"information">>, <<"is">>, <<"insufficient">>>>
    ELSE IF value[1] > 0 THEN <<<<"increased.">>>>
    ELSE IF value[1] < 0 THEN <<<<"decreased.">>>>
    ELSE <<<<"did">>, <<"not">>, <<"change.">>>>

\* aggregated.get(key) or {}
OrEmpty(metric) ==
    IF metric.kind \in {"absent", "None"}
    THEN [kind |-> "dict", change_pct |-> <<>>, previous |-> <<>>, current |-> <<>>,
          change_pct_point |-> <<>>]
    ELSE metric

\* engine.render of the template capex_change on _capex_context(aggregated)
CapexSentence(capex) ==
    <<<<"CAPEX", "-neun">>, <<"previous">>, <<"period">>, <<"versus">>,
      _signed_percentage(capex.change_pct, "%")>> \o _direction_phrase(capex.change_pct)

\* engine.render of the template irr_change on _irr_context(aggregated)
IrrSentence(irr) ==
    <<<<"project">>, <<"IRR", "-eun">>, _percentage(irr.previous, "%") \o <<"-eseo">>,
      _percentage(irr.current, "%") \o <<"-ro">>,
      _signed_percentage(irr.change_pct_point, "p")>> \o _direction_phrase(irr.change_pct_point)

\* engine.render of the template opex_change on _opex_context(aggregated)
OpexSentence(opex) ==
    <<<<"OPEX", "-neun">>, <<"previous">>, <<"year">>, <<"versus">>,
      _signed_percentage(opex.change_pct, "%")>> \o _direction_phrase(opex.change_pct)

\* TEMPLATES[template_key].metric_keys
metric_keys(template_key) ==
    CASE template_key = "capex_change" -> {"capex"}
      [] template_key = "irr_change" -> {"irr"}
      [] template_key = "opex_change" -> {"opex"}

Rendered(template_key, aggregated) ==
    CASE template_key = "capex_change" -> CapexSentence(OrEmpty(aggregated.capex))
      [] template_key = "irr_change" -> IrrSentence(OrEmpty(aggregated.irr))
      [] template_key = "opex_change" -> OpexSentence(OrEmpty(aggregated.opex))

\* render_sentence: KeyError when a metric of the template is missing or None,
\* AttributeError when it has no .get
render_sentence(template_key, aggregated) ==
    IF \E m \in metric_keys(template_key) : aggregated[m].kind \in {"absent", "None"}
    THEN [raised |-> "KeyError", value |-> <<>>]
    ELSE IF \E m \in metric_keys(template_key) : aggregated[m].kind = "number"
    THEN [raised |-> "AttributeError", value |-> <<>>]
    ELSE [raised |-> "none", value |-> Rendered(template_key, aggregated)]

SCENARIO_TEMPLATES ==
    [default |-> <<"capex_change", "irr_change">>,
     cost_focus |-> <<"capex_change", "opex_change">>]

template_keys_cost_focus(scenario) ==
    Get(SCENARIO_TEMPLATES, scenario, SCENARIO_TEMPLATES["cost_focus"])

\* line 114: SCENARIO_TEMPLATES.get(scenario, SCENARIO_TEMPLATES["default"])
template_keys(scenario) ==
    Get(SCENARIO_TEMPLATES, scenario, SCENARIO_TEMPLATES["default"])

\* lines 116-122 for one key, given what render_sentence did
AfterSentence(acc, rendered) ==
    IF acc.raised # "none" THEN acc
    ELSE IF rendered.raised = "KeyError" THEN acc
    ELSE IF rendered.raised # "none" THEN [raised |-> rendered.raised, value |-> <<>>]
    ELSE [raised |-> "none", value |-> acc.value \o rendered.value]

\* lines 115-123: the sentences so far, then those of the keys left
RECURSIVE SentencesLoop(_, _, _)
SentencesLoop(acc, todo, aggregated) ==
    IF todo = <<>> THEN acc
    ELSE SentencesLoop(AfterSentence(acc, render_sentence(Head(todo), aggregated)),
                       Tail(todo), aggregated)

\* generate_summary with the default engine
generate_summary(aggregated, scenario) ==
    SentencesLoop([raised |-> "none", value |-> <<>>], template_keys(scenario), aggregated)

(***************************************************************************)
(* The metrics generate_summary is applied to, and its action: workbook    *)
(* holds aggregated and options the scenario.                              *)
(***************************************************************************)
Metric(kind, change_pct, previous, current, change_pct_point) ==
    [kind |-> kind, change_pct |-> change_pct, previous |-> previous,
     current |-> current, change_pct_point |-> change_pct_point]

NoMetric == Metric("absent", <<>>, <<>>, <<>>, <<>>)

CapexPool ==
    {NoMetric, Metric("None", <<>>, <<>>, <<>>, <<>>), Metric("dict", <<>>, <<>>, <<>>, <<>>),
     Metric("dict", <<525>>, <<>>, <<>>, <<>>), Metric("dict", <<-410>>, <<>>, <<>>, <<>>),
     Metric("dict", <<0>>, <<>>, <<>>, <<>>), Metric("number", <<>>, <<>>, <<>>, <<>>)}

IrrPool ==
    {NoMetric, Metric("None", <<>>, <<>>, <<>>, <<>>),
     Metric("dict", <<>>, <<850>>, <<920>>, <<70>>),
     Metric("dict", <<>>, <<1000>>, <<950>>, <<-50>>),
     Metric("dict", <<>>, <<>>, <<-4>>, <<>>)}

OpexPool == {NoMetric, Metric("dict", <<-340>>, <<>>, <<>>, <<>>)}

AggregatedPool == [capex : CapexPool, irr : IrrPool, opex : OpexPool]

ScenarioPool == {"default", "cost_focus", "nonexistent", ""}

InitSummary ==
    /\ GraphInit /\ ParserIdle /\ RulesIdle /\ DetectIdle /\ BatchIdle
    /\ workbook \in AggregatedPool
    /\ options \in [scenario : ScenarioPool]
    /\ result = [op |-> "none", raised |-> "none", value |-> <<>>]

\* generate_summary(aggregated, scenario=...)
GenerateSummary ==
    /\ result.op = "none"
    /\ result' = Outcome("generate_summary", generate_summary(workbook, options.scenario))
    /\ UNCHANGED <<workbook, options>>

NextSummary ==
    GenerateSummary /\ UNCHANGED <<graphVars, parserVars, rulesVars, detectVars, batchVars>>

SpecSummary == InitSummary /\ [][NextSummary]_vars

(***************************************************************************)
(* analyze_model/batch.py: run_batch_scheduler.  batch is the position of  *)
(* the call (pc), its arguments (configured: config.batch is not None;     *)
(* iterations), the locals counter and todo (the workbooks of the glob     *)
(* not yet processed), how the call ended (raised), and the history of     *)
(* the call: iterations completed, sleeps done, whether an analysis has    *)
(* raised.                                                                 *)
(***************************************************************************)
MaxIterations == 3

MaxWorkbooks == 2

\* the iterations the model follows a call that runs indefinitely for
MaxCounter == MaxIterations + 1

InitBatch ==
    /\ GraphInit /\ ParserIdle /\ RulesIdle /\ DetectIdle /\ CallsIdle
    /\ batch \in [pc : {"called"}, configured : BOOLEAN, iterations : 0..MaxIterations,
                  counter : {0}, todo : {0}, raised : {"none"}, completed : {0},
                  slept : {0}, failed : {FALSE}]

\* lines 67-71
Enter ==
    /\ batch.pc = "called"
    /\ batch' = IF batch.configured
                THEN [batch EXCEPT !.pc = "while", !.counter = 0]
                ELSE [batch EXCEPT !.pc = "done", !.raised = "ValueError"]

\* lines 73-77: the next iteration starts on the workbooks the glob finds
StartIteration ==
    /\ batch.pc = "while"
    /\ batch.counter < MaxCounter
    /\ \E found \in 0..MaxWorkbooks :
          batch' = [batch EXCEPT !.pc = "for", !.counter = @ + 1, !.todo = found]

\* lines 78-97 for one workbook: the analysis raises and the workbook is
\* skipped, or its state is loaded, compared and saved, or one of these raises
ProcessWorkbook ==
    /\ batch.pc = "for"
    /\ batch.todo > 0
    /\ \/ batch' = [batch EXCEPT !.todo = @ - 1, !.failed = TRUE]
       \/ batch' = [batch EXCEPT !.todo = @ - 1]
       \/ batch' = [batch EXCEPT !.pc = "done", !.raised = "OSError"]

CompleteIteration_sleep_first ==
    /\ batch.pc = "for"
    /\ batch.todo = 0
    /\ batch' = [batch EXCEPT !.completed = @ + 1, !.pc = "sleep"]

\* lines 99-102
CompleteIteration ==
    /\ batch.pc = "for"
    /\ batch.todo = 0
    /\ batch' = [batch EXCEPT !.completed = @ + 1,
                              !.pc = IF batch.iterations # 0
                                        /\ batch.counter >= batch.iterations
                                     THEN "done" ELSE "sleep"]

\* line 104
Sleep ==
    /\ batch.pc = "sleep"
    /\ batch' = [batch EXCEPT !.slept = @ + 1, !.pc = "while"]

NextBatch ==
    \/ Enter /\ UNCHANGED <<graphVars, parserVars, rulesVars, detectVars, callVars>>
    \/ StartIteration /\ UNCHANGED <<graphVars, parserVars, rulesVars, detectVars, callVars>>
    \/ ProcessWorkbook /\ UNCHANGED <<graphVars, parserVars, rulesVars, detectVars, callVars>>
    \/ CompleteIteration /\ UNCHANGED <<graphVars, parserVars, rulesVars, detectVars, callVars>>
    \/ Sleep /\ UNCHANGED <<graphVars, parserVars, rulesVars, detectVars, callVars>>

\* the call is one thread: each statement it has reached is executed, the
\* analysis of a workbook ends and time.sleep returns
SpecBatch == InitBatch /\ [][NextBatch]_vars /\ WF_vars(NextBatch)

(***************************************************************************)
(* Further properties of the parser and of the dependency graph.           *)
(***************************************************************************)
\* the sheet a reference written with qualifier q names
SheetOf(q) == IF q = Unqualified THEN current_sheet ELSE q.name

\* the qualifiers ref is written with
QualifiersOf(text) ==
    {q \in Qualifiers : IsPrefix(q.text, text) /\ (q = Unqualified => "!" \notin Range(text))}

C27_SubgraphKeysInGraph ==
    ret.op = "subgraph" => Keys(ret.value) \subseteq Keys(edges)

(***************************************************************************)
(* Properties of parse and analyze.                                        *)
(***************************************************************************)
\* the tables of the sheet record parse returned
ParsedTables == result.value.sheets[1].tables

\* C21: the declared tables are all in the sheet record, in their order and
\* before every heuristic table, one overlapping merged cells included; no
\* heuristic table has the range string of a declared table
C21_DeclaredTablesFirst ==
    (result.op = "parse" /\ result.raised = "none") =>
        /\ Len(ParsedTables) >= Len(workbook.tables)
        /\ \A i \in 1..Len(workbook.tables) :
              /\ ParsedTables[i].name = workbook.tables[i].name
              /\ ParsedTables[i].ref = workbook.tables[i].ref
              /\ ParsedTables[i].has_merged_cells
                     = (\E m \in merged_cells :
                            Intersects(BoxOf(m), BoxOf(workbook.tables[i].ref)))
        /\ \A i \in (Len(workbook.tables) + 1)..Len(ParsedTables) :
              /\ ParsedTables[i].name = NoneValue
              /\ \A j \in 1..Len(workbook.tables) :
                     ParsedTables[i].ref # workbook.tables[j].ref

\* the scan found two blocks; the one with the range of the declared table was
\* dropped and the other one follows the declared table
C21_Witness ==
    /\ result.op = "parse" /\ result.raised = "none"
    /\ Len(workbook.tables) = 1
    /\ merged_cells # {}
    /\ Len(detect_structured_ranges) = 2
    /\ detect_structured_ranges[2].ref = workbook.tables[1].ref
    /\ Len(ParsedTables) = 2
    /\ ParsedTables[2] = detect_structured_ranges[1]

\* the cell records of the workbook record inside an analysis result
ResultCells == result.value.workbook.sheets[1].cells

\* C22: the identifier of every cell record is a key of the dependency graph
\* of the analysis result; every metric names a cell record with a formula
C22_CellsAndMetrics ==
    (result.op = "analyze" /\ result.raised = "none") =>
        /\ \A i \in 1..Len(ResultCells) :
              ResultCells[i].id \in Keys(result.value.dependency_graph)
        /\ \A k \in 1..Len(result.value.financial_metrics) :
              \E i \in 1..Len(ResultCells) :
                  /\ ResultCells[i].sheet = result.value.financial_metrics[k].sheet
                  /\ ResultCells[i].coordinate = result.value.financial_metrics[k].coordinate
                  /\ ResultCells[i].formula # <<>>
                  /\ ~ResultCells[i].is_input

\* an analysis with a metric and with an input cell that no formula refers to
C22_Witness ==
    /\ result.op = "analyze" /\ result.raised = "none"
    /\ result.value.financial_metrics # <<>>
    /\ \E i \in 1..Len(ResultCells) :
          /\ ResultCells[i].is_input
          /\ \A j \in 1..Len(ResultCells) :
                 ResultCells[i].id \notin Range(ResultCells[j].dependencies)

\* the coordinates of the cells a destination names
CellsOfDestination(text) ==
    {ColumnName(c) \o DecStr(r) : <<c, r>> \in
        {p \in (1..3) \X (1..(MaxGridRows + 1)) :
            \/ text = ColumnName(p[1]) \o DecStr(p[2])
            \/ \E box \in Boxes : /\ BoxText(box) = text
                                  /\ p[1] \in box.c1..box.c2
                                  /\ p[2] \in box.r1..box.r2}}

\* C23: the targets of a named range of type RANGE are the identifiers of the
\* cells of its destinations, one for each cell
C23_OneTargetPerCell ==
    (result.op = "parse" /\ result.raised = "none") =>
        \A i \in 1..Len(workbook.defined_names) :
            workbook.defined_names[i].type = "RANGE" =>
                /\ result.value.named_ranges[i].name = workbook.defined_names[i].name
                /\ Range(result.value.named_ranges[i].targets)
                     = UNION {{CellId(d[1], coord) :
                                  coord \in CellsOfDestination(RemoveAll(d[2], "$"))} :
                              d \in Range(workbook.defined_names[i].destinations)}

(***************************************************************************)
(* Properties of extract_sensitivity_inputs.                               *)
(***************************************************************************)
\* the criteria a cell satisfies: a str value that starts with the prefix, a
\* comment that contains a keyword, a fill colour that is one of the highlight
\* colours
Criteria(cell, opts) ==
    {r \in {"prefix"} : cell.value.kind = "str" /\ IsPrefix(opts.prefix, cell.value.text)}
    \cup {r \in {"comment"} :
             /\ cell.comment # <<>>
             /\ \E kw \in Range(KeywordsOf(opts.prefix, opts.comment_keywords)) :
                    Contains(cell.comment[1], kw)}
    \cup {r \in {"fill_color"} :
             /\ cell.fill # <<>>
             /\ \E h \in Range(opts.highlight_colors) :
                    /\ h # <<>>
                    /\ _normalize_color(h) # <<>>
                    /\ _normalize_color(h) = _normalize_color(fgColor(cell.fill))}

Matching(cells, opts) == {j \in 1..Len(cells) : Criteria(cells[j], opts) # {}}

\* C25: the records are those of the cells that satisfy a criterion, one for
\* each, and matched_by of a record lists the criteria its cell satisfies
C25_RecordsMatchCriteria ==
    (result.op = "extract_sensitivity_inputs" /\ result.raised = "none") =>
        /\ Len(result.value) = Cardinality(Matching(workbook, options))
        /\ \A j \in Matching(workbook, options) :
              \E k \in 1..Len(result.value) :
                  /\ result.value[k].coordinate = get_column_letter(j) \o <<"1">>
                  /\ Range(result.value[k].matched_by) = Criteria(workbook[j], options)
                  /\ NoDup(result.value[k].matched_by)

(***************************************************************************)
(* Properties of generate_summary.                                         *)
(***************************************************************************)
\* C26: for a scenario that is no key of SCENARIO_TEMPLATES, generate_summary
\* returns what it returns for the scenario "default" on the same metrics
C26_UnknownScenarioIsDefault ==
    (result.op = "generate_summary" /\ options.scenario \notin DOMAIN SCENARIO_TEMPLATES) =>
        /\ result.raised = generate_summary(workbook, "default").raised
        /\ result.value = generate_summary(workbook, "default").value

\* an unknown scenario gave the CAPEX and the IRR sentence, on metrics for
\* which the scenario cost_focus gives another summary
C26_Witness ==
    /\ result.op = "generate_summary" /\ result.raised = "none"
    /\ options.scenario = "nonexistent"
    /\ result.value = CapexSentence(workbook.capex) \o IrrSentence(workbook.irr)
    /\ workbook.opex.kind = "dict"
    /\ <<<<"+", "5", ".", "3", "%">>>> = SubSeq(result.value, 5, 5)

(***************************************************************************)
(* Properties of run_batch_scheduler.                                      *)
(***************************************************************************)
Returned == batch.pc = "done" /\ batch.raised = "none"

\* a call that returned made exactly `iterations` iterations and slept
\* between them only
ExactlyN ==
    Returned => /\ batch.iterations > 0
                /\ batch.completed = batch.iterations
                /\ batch.slept = batch.iterations - 1

====
